---------------------------- MODULE Spec2Model ----------------------------
(***************************************************************************)
(* A model of the code-generation back end:                                *)
(*   - maglev ParallelMoveResolver and the machine its moves run on,       *)
(*   - maglev ExceptionHandlerTrampolineBuilder,                           *)
(*   - maglev deferred code (EmitDeferredCode) and the x64 out-of-line     *)
(*     write barrier,                                                      *)
(*   - maglev MaglevTranslationArrayBuilder (deopt frames),                *)
(*   - x64 CodeGenerator::AssembleConstructFrame / AssembleReturn.         *)
(* Each part has its own specification over the shared variable list; the  *)
(* variables of the other parts stay at their initial values.              *)
(***************************************************************************)
EXTENDS Integers, Sequences, FiniteSets, TLC

\* ------------------------------------------------------------------ bounds
NumRegs == 2
NumSlots == 2
MaxMoves == 3
NumCalleeSaved == 2
NumCalleeSavedFP == 1
MaxReturnSlots == 1
MaxSpillSlots == 2
MaxNodes == 2
MaxPhis == 3
MaxParams == 2
MaxRegisters == 2
MaxInliningDepth == 1
MaxResultSize == 2
MaxPushes == 2
MaxFirstUnusedSlot == 5
NumCallerSaved == 2
NumCallerSavedFP == 1
MaxArgc == 3
MaxParameterSlots == 2
MaxTaggedSlots == 25     \* tagged spill slots of a Maglev graph
MaxUntaggedSlots == 1    \* untagged spill slots of a Maglev graph

\* ------------------------------------------------------- program constants
kSystemPointerSize == 8
kQuadWordSize == 16

VARIABLES
  \* ParallelMoveResolver fields
  moves_from_register_,
  moves_from_stack_slot_,
  materializing_register_moves_,
  materializing_stack_slot_moves_,
  scratch_has_cycle_start_,
  debug_build,      \* whether the build defines DEBUG
  fatal,            \* FATAL() was reached
  dcheck_ok,        \* no DCHECK of the resolver has failed so far
  recorded,         \* history: the moves recorded, as records [src, tgt]
  num_recorded,     \* history: the number of RecordMove calls
  indegree_ok,      \* history: no RecordMove named a target twice
  \* the emitted code and the machine it runs on
  pmr_pc,
  code,
  ip,
  val,
  nstack,
  \* x64 CodeGenerator: the frame descriptor and the machine at run time
  frame,            \* call descriptor and Frame: saves, saves_fp, returns, ...
  frame_pc,         \* "entry", "constructed", "body", "returned"
  rsp,
  rbp,
  gp_regs,          \* callee-saved general registers
  xmm_regs,         \* callee-saved XMM registers, each <<low, high>>
  stack_mem,        \* stack memory, one word per slot address
  \* deferred (out-of-line) code of the Maglev and TurboFan code generators
  compiler,         \* "maglev" or "turbofan"
  masm_code,        \* the instructions emitted so far
  deferred_code,    \* MaglevCodeGenState::deferred_code_: pending blocks
  deferred_infos,   \* every DeferredCodeInfo / OutOfLineCode allocated
  ools_,            \* CodeGenerator::ools_: pending out-of-line code
  num_labels,       \* labels allocated so far
  taken,            \* the vector EmitDeferredCode iterates over
  taken_idx,        \* position in it
  dc_pc,            \* "start", "main", "for", "drain", "done", "finished"
  num_nodes,        \* nodes the main pass has generated
  generated,        \* the blocks generated, with the positions of their code
  drain_iterations, \* iterations of the while loop of EmitDeferredCode
  \* ExceptionHandlerTrampolineBuilder; its direct_moves is the resolver above
  materialising_moves,
  save_accumulator,
  phi_targets,      \* result locations of the phis handled so far
  num_phis,
  tr_pc,            \* "record", "emitted", "jumped"
  \* MaglevTranslationArrayBuilder
  deopt_info,       \* the deopt point: kind, frames (top first), result
  translation_array,
  deopt_literals_,
  current_input_location,
  translation_index,
  deopt_pc,         \* "pending", "built"
  \* x64 CodeGenerator: the state kept between instructions
  sp_delta,         \* FrameAccessState: slots pushed since the prologue
  frame_access,     \* FrameAccessState: "fp" or "sp"
  caller_registers_saved_,
  fp_mode_,         \* "kIgnore", "kSave"
  temp_slots_,
  move_cycle_,      \* pending_scratch_register_use, pending_double_...
  scratch_regs,     \* contents of kScratchRegister, kScratchDoubleReg
  stack_slot_delta, \* the delta the last tail-call adjustment computed
  cg_instr,         \* the instruction being assembled
  cg_result,        \* what assembling it produced
  cg_pc             \* "idle", "block", "prepared", "gap", "adjusted", "left"

pmr_vars == <<moves_from_register_, moves_from_stack_slot_,
              materializing_register_moves_, materializing_stack_slot_moves_,
              scratch_has_cycle_start_, debug_build, fatal, dcheck_ok,
              recorded, num_recorded, indegree_ok, pmr_pc, code, ip, val,
              nstack>>

frame_vars == <<frame, frame_pc, rsp, rbp, gp_regs, xmm_regs, stack_mem>>

dc_vars ==
  <<compiler, masm_code, deferred_code, deferred_infos, ools_, num_labels,
    taken, taken_idx, dc_pc, num_nodes, generated, drain_iterations>>

tramp_vars ==
  <<materialising_moves, save_accumulator, phi_targets, num_phis, tr_pc>>

deopt_vars ==
  <<deopt_info, translation_array, deopt_literals_, current_input_location,
    translation_index, deopt_pc>>

cg_vars ==
  <<sp_delta, frame_access, caller_registers_saved_, fp_mode_, temp_slots_,
    move_cycle_, scratch_regs, stack_slot_delta, cg_instr, cg_result, cg_pc>>

vars == <<pmr_vars, frame_vars, dc_vars, tramp_vars, deopt_vars, cg_vars>>

\* what the actions of one part leave alone
other_than_pmr == <<frame_vars, dc_vars, tramp_vars, deopt_vars, cg_vars>>
other_than_frame == <<pmr_vars, dc_vars, tramp_vars, deopt_vars, cg_vars>>
other_than_dc == <<pmr_vars, frame_vars, tramp_vars, deopt_vars, cg_vars>>
other_than_tramp == <<frame_vars, dc_vars, deopt_vars, cg_vars>>
other_than_deopt == <<pmr_vars, frame_vars, dc_vars, tramp_vars, cg_vars>>
other_than_cg == <<pmr_vars, dc_vars, tramp_vars, deopt_vars>>

\* ----------------------------------------------------------- locations
RegCodes == 0 .. (NumRegs - 1)
SlotOffsets == 0 .. (NumSlots - 1)

Nil == [k |-> "none", i |-> 0]
Reg(c) == [k |-> "reg", i |-> c]
StackSlot(s) == [k |-> "slot", i |-> s]
Const(n) == [k |-> "const", i |-> n]
kScratchRegT == [k |-> "scratch", i |-> 0]
Junk == [k |-> "junk", i |-> 0]

kAllocatableRegistersT == {Reg(c) : c \in RegCodes}
AllSlots == {StackSlot(s) : s \in SlotOffsets}
ConstNodes == {Const(0)}
Locations == kAllocatableRegistersT \cup AllSlots \cup {kScratchRegT}

IsAnyRegister(op) == op.k = "reg"
IsAnyStackSlot(op) == op.k = "slot"
IsConstant(op) == op.k = "const"

\* ------------------------------------------------------- small helpers
Min(S) == CHOOSE x \in S : \A y \in S : x <= y

RECURSIVE Ascending(_)
Ascending(S) == IF S = {} THEN <<>> ELSE <<Min(S)>> \o Ascending(S \ {Min(S)})

Contains(seq, x) == \E j \in 1 .. Len(seq) : seq[j] = x

Front(seq) == SubSeq(seq, 1, Len(seq) - 1)

Restrict(f, S) == [x \in S |-> f[x]]

\* All orderings of a finite set, as sequences.
RECURSIVE Orderings(_)
Orderings(S) ==
  IF S = {} THEN {<<>>}
  ELSE UNION {{<<x>> \o t : t \in Orderings(S \ {x})} : x \in S}

\* ---------------------------------------------------------- instructions
Mov(dst, src) == [op |-> "mov", dst |-> dst, src |-> src]
PushI(src) == [op |-> "push", dst |-> Nil, src |-> src]
PopI(dst) == [op |-> "pop", dst |-> dst, src |-> Nil]
LoadToRegister(node, dst) == [op |-> "load", dst |-> dst, src |-> node]

\* ------------------------------------------------------- GapMoveTargets
GapMoveTargets == [registers |-> {}, stack_slots |-> <<>>]

is_empty(t) == t.registers = {} /\ t.stack_slots = <<>>

\* The resolver's mutable state while EmitMoves runs.
\*   mr   moves_from_register_     ms  moves_from_stack_slot_
\*   flag scratch_has_cycle_start_ out the instructions emitted so far
\*   ok   no DCHECK failed
ResolverState(mr, ms, flag, out, ok) ==
  [mr |-> mr, ms |-> ms, flag |-> flag, out |-> out, ok |-> ok]

Emit(st, ins) == [st EXCEPT !.out = Append(@, ins)]

Dcheck(st, cond) == [st EXCEPT !.ok = @ /\ cond]

\* Targets currently recorded for a source (empty if the map has no entry).
TargetsOf(st, source) ==
  IF IsAnyStackSlot(source)
  THEN IF source.i \in DOMAIN st.ms THEN st.ms[source.i] ELSE GapMoveTargets
  ELSE IF IsAnyRegister(source) THEN st.mr[source.i] ELSE GapMoveTargets

\* PopTargets: the state after the targets of source have been removed.
PopTargets(st, source) ==
  IF IsAnyStackSlot(source)
  THEN [st EXCEPT !.ms = Restrict(st.ms, DOMAIN st.ms \ {source.i})]
  ELSE IF IsAnyRegister(source)
       THEN [st EXCEPT !.mr[source.i] = GapMoveTargets]
       ELSE st


\* ------------------------------------------- ParallelMoveResolver: emission
\* A variant that forwards the value along the targets: each move after the
\* first reads the target written just before it.
EmitMovesFromSourceReg_Chained(st, source_reg, targets) ==
  LET regs == Ascending(targets.registers)
      list == [j \in 1 .. Len(regs) |-> Reg(regs[j])]
              \o [j \in 1 .. Len(targets.stack_slots) |->
                    StackSlot(targets.stack_slots[j])]
  IN [st EXCEPT !.out =
        @ \o [j \in 1 .. Len(list) |->
                Mov(list[j], IF j = 1 THEN source_reg ELSE list[j - 1])]]

\* EmitMovesFromSource(RegisterT source_reg, GapMoveTargets&& targets)
EmitMovesFromSourceReg(st, source_reg, targets) ==
  LET regs == Ascending(targets.registers)
      st0 == Dcheck(st, is_empty(TargetsOf(st, source_reg))
                        /\ \A c \in targets.registers : is_empty(st.mr[c])
                        /\ \A j \in 1 .. Len(targets.stack_slots) :
                              targets.stack_slots[j] \notin DOMAIN st.ms)
  IN [st0 EXCEPT !.out =
        @ \o [j \in 1 .. Len(regs) |-> Mov(Reg(regs[j]), source_reg)]
          \o [j \in 1 .. Len(targets.stack_slots) |->
                Mov(StackSlot(targets.stack_slots[j]), source_reg)]]

\* A variant that overwrites the scratch register without saving the cycle
\* start it holds.
EmitMovesFromSourceSlot_NoPush(st, source_slot, targets) ==
  LET st0 == Dcheck(st, source_slot.i \notin DOMAIN st.ms)
  IN IF targets.registers # {}
     THEN LET first == Min(targets.registers)
              rest == [targets EXCEPT !.registers = @ \ {first}]
          IN EmitMovesFromSourceReg(Emit(st0, Mov(Reg(first), source_slot)),
                                    Reg(first), rest)
     ELSE EmitMovesFromSourceReg(Emit(st0, Mov(kScratchRegT, source_slot)),
                                 kScratchRegT, targets)

\* A variant that caches the slot value in the first allocatable register
\* when no target is a register.
EmitMovesFromSourceSlot_SecondTemp(st, source_slot, targets) ==
  LET st0 == Dcheck(st, source_slot.i \notin DOMAIN st.ms)
  IN IF targets.registers # {}
     THEN LET first == Min(targets.registers)
              rest == [targets EXCEPT !.registers = @ \ {first}]
          IN EmitMovesFromSourceReg(Emit(st0, Mov(Reg(first), source_slot)),
                                    Reg(first), rest)
     ELSE EmitMovesFromSourceReg(Emit(st0, Mov(Reg(0), source_slot)),
                                 Reg(0), targets)

\* EmitMovesFromSource(int32_t source_slot, GapMoveTargets&& targets)
EmitMovesFromSourceSlot(st, source_slot, targets) ==
  LET st0 == Dcheck(st, source_slot.i \notin DOMAIN st.ms)
  IN IF targets.registers # {}
     THEN \* register_with_slot_value = targets.registers.PopFirst()
          LET first == Min(targets.registers)
              rest == [targets EXCEPT !.registers = @ \ {first}]
              st1 == Dcheck(st0, is_empty(st0.mr[first]))
          IN EmitMovesFromSourceReg(Emit(st1, Mov(Reg(first), source_slot)),
                                    Reg(first), rest)
     ELSE LET st1 == Dcheck(st0, targets.stack_slots # <<>>)
              st2 == IF st1.flag
                     THEN [Emit(st1, PushI(kScratchRegT)) EXCEPT !.flag = FALSE]
                     ELSE st1
          IN EmitMovesFromSourceReg(Emit(st2, Mov(kScratchRegT, source_slot)),
                                    kScratchRegT, targets)

EmitMovesFromSource(st, source, targets) ==
  IF IsAnyStackSlot(source)
  THEN EmitMovesFromSourceSlot(st, source, targets)
  ELSE EmitMovesFromSourceReg(st, source, targets)

\* The targets in the order RecursivelyEmitMoveChainTargets visits them:
\* the registers by ascending code, then the stack slots in recording order.
TargetList(targets) ==
  LET regs == Ascending(targets.registers)
  IN [j \in 1 .. Len(regs) |-> Reg(regs[j])]
     \o [j \in 1 .. Len(targets.stack_slots) |-> StackSlot(targets.stack_slots[j])]

RECURSIVE ContinueEmitMoveChain(_, _, _)
RECURSIVE VisitTargets(_, _, _, _)

\* The loop bodies of RecursivelyEmitMoveChainTargets from list position j
\* on; r is [st, has_cycle] so far.
VisitTargets(r, chain_start, list, j) ==
  IF j > Len(list) THEN r
  ELSE LET c == ContinueEmitMoveChain(r.st, chain_start, list[j])
       IN VisitTargets([st |-> c.st, has_cycle |-> r.has_cycle \/ c.has_cycle],
                       chain_start, list, j + 1)

RecursivelyEmitMoveChainTargets(st, chain_start, targets) ==
  VisitTargets([st |-> st, has_cycle |-> FALSE], chain_start,
               TargetList(targets), 1)

ContinueEmitMoveChain(st, chain_start, source) ==
  IF chain_start = source
  THEN \* the recursion has returned to the start of the chain: a cycle
       [st |-> [Emit(Dcheck(st, ~st.flag), Mov(kScratchRegT, chain_start))
                  EXCEPT !.flag = TRUE],
        has_cycle |-> TRUE]
  ELSE LET targets == TargetsOf(st, source)
           st1 == PopTargets(st, source)
       IN IF is_empty(targets)
          THEN [st |-> st1, has_cycle |-> FALSE]
          ELSE LET r == RecursivelyEmitMoveChainTargets(st1, chain_start, targets)
               IN [st |-> EmitMovesFromSource(r.st, source, targets),
                   has_cycle |-> r.has_cycle]

\* A variant of StartEmitMoveChain that pops the scratch register at the end
\* of every cycle, whether or not it was pushed.
StartEmitMoveChain_AlwaysPop(st, source) ==
  LET st0 == Dcheck(st, ~st.flag)
      targets == TargetsOf(st0, source)
      st1 == PopTargets(st0, source)
  IN IF is_empty(targets) THEN st1
     ELSE LET r == RecursivelyEmitMoveChainTargets(st1, source, targets)
          IN IF r.has_cycle
             THEN [EmitMovesFromSource(
                     [Emit(r.st, PopI(kScratchRegT)) EXCEPT !.flag = TRUE],
                     kScratchRegT, targets)
                   EXCEPT !.flag = FALSE]
             ELSE EmitMovesFromSource(r.st, source, targets)

StartEmitMoveChain(st, source) ==
  LET st0 == Dcheck(st, ~st.flag)
      targets == TargetsOf(st0, source)
      st1 == PopTargets(st0, source)
  IN IF is_empty(targets) THEN st1
     ELSE LET r == RecursivelyEmitMoveChainTargets(st1, source, targets)
          IN IF r.has_cycle
             THEN LET st2 == IF ~r.st.flag
                             THEN [Emit(r.st, PopI(kScratchRegT)) EXCEPT !.flag = TRUE]
                             ELSE r.st
                  IN [EmitMovesFromSource(st2, kScratchRegT, targets)
                        EXCEPT !.flag = FALSE]
             ELSE EmitMovesFromSource(r.st, source, targets)

\* A variant of the first loop that materialises into a register before the
\* chain that starts at it is emitted.
RECURSIVE EmitRegisterChains_MaterialiseFirst(_, _, _)
EmitRegisterChains_MaterialiseFirst(st, mat_regs, c) ==
  IF c >= NumRegs THEN st
  ELSE LET st1 == IF mat_regs[c] # Nil
                  THEN Emit(st, LoadToRegister(mat_regs[c], Reg(c)))
                  ELSE st
       IN EmitRegisterChains_MaterialiseFirst(StartEmitMoveChain(st1, Reg(c)),
                                              mat_regs, c + 1)

\* EmitMoves, first loop, from register code c on.
RECURSIVE EmitRegisterChains(_, _, _)
EmitRegisterChains(st, mat_regs, c) ==
  IF c >= NumRegs THEN st
  ELSE LET st1 == StartEmitMoveChain(st, Reg(c))
           st2 == IF mat_regs[c] # Nil
                  THEN Emit(st1, LoadToRegister(mat_regs[c], Reg(c)))
                  ELSE st1
       IN EmitRegisterChains(st2, mat_regs, c + 1)

\* A variant of the while loop that emits the chain of one stack slot only.
EmitStackSlotChains_Once(st, order, j) ==
  IF j > Len(order) THEN st
  ELSE StartEmitMoveChain(st, StackSlot(order[j]))

\* EmitMoves, the while loop: begin() of the unordered map is any key that
\* is still present; order fixes which one.
RECURSIVE EmitStackSlotChains(_, _, _)
EmitStackSlotChains(st, order, j) ==
  IF j > Len(order) THEN st
  ELSE IF order[j] \in DOMAIN st.ms
       THEN EmitStackSlotChains(StartEmitMoveChain(st, StackSlot(order[j])),
                                order, j + 1)
       ELSE EmitStackSlotChains(st, order, j + 1)

\* EmitMoves, last loop, from position j of materializing_stack_slot_moves_.
RECURSIVE EmitStackSlotMaterialisations(_, _, _)
EmitStackSlotMaterialisations(st, mat_slots, j) ==
  IF j > Len(mat_slots) THEN st
  ELSE EmitStackSlotMaterialisations(
         Emit(Emit(st, LoadToRegister(mat_slots[j].node, kScratchRegT)),
              Mov(StackSlot(mat_slots[j].slot), kScratchRegT)),
         mat_slots, j + 1)

EmitMovesFrom(st, mat_regs, mat_slots, order) ==
  EmitStackSlotMaterialisations(
    EmitStackSlotChains(EmitRegisterChains(st, mat_regs, 0), order, 1),
    mat_slots, 1)


\* -------------------------------------------- ParallelMoveResolver: recording
EmptyMap == [x \in {} |-> GapMoveTargets]

\* moves_from_stack_slot_[source_slot], created empty when absent
MapEntry(ms, s) == IF s \in DOMAIN ms THEN ms[s] ELSE GapMoveTargets

MapPut(ms, s, t) == [x \in DOMAIN ms \cup {s} |-> IF x = s THEN t ELSE ms[x]]

\* CheckNoExistingMoveToRegister finds nothing to report
NoExistingMoveToRegister(target_reg) ==
  /\ \A c \in RegCodes : target_reg.i \notin moves_from_register_[c].registers
  /\ \A s \in DOMAIN moves_from_stack_slot_ :
        target_reg.i \notin moves_from_stack_slot_[s].registers
  /\ materializing_register_moves_[target_reg.i] = Nil

\* A variant that looks for the slot among the targets of register sources
\* only.
NoExistingMoveToStackSlot_RegistersOnly(target_slot) ==
  \A c \in RegCodes :
     ~Contains(moves_from_register_[c].stack_slots, target_slot.i)

\* CheckNoExistingMoveToStackSlot finds nothing to report
NoExistingMoveToStackSlot(target_slot) ==
  /\ \A c \in RegCodes :
        ~Contains(moves_from_register_[c].stack_slots, target_slot.i)
  /\ \A s \in DOMAIN moves_from_stack_slot_ :
        ~Contains(moves_from_stack_slot_[s].stack_slots, target_slot.i)
  /\ \A j \in 1 .. Len(materializing_stack_slot_moves_) :
        materializing_stack_slot_moves_[j].slot # target_slot.i

RecordMoveToRegister(node, source, target_reg) ==
  IF debug_build /\ ~NoExistingMoveToRegister(target_reg)
  THEN /\ fatal' = TRUE
       /\ UNCHANGED <<moves_from_register_, moves_from_stack_slot_,
                      materializing_register_moves_,
                      materializing_stack_slot_moves_>>
  ELSE /\ fatal' = fatal
       /\ UNCHANGED materializing_stack_slot_moves_
       /\ IF IsAnyRegister(source)
          THEN /\ moves_from_register_' =
                    IF target_reg # source
                    THEN [moves_from_register_ EXCEPT
                            ![source.i].registers = @ \cup {target_reg.i}]
                    ELSE moves_from_register_
               /\ UNCHANGED <<moves_from_stack_slot_, materializing_register_moves_>>
          ELSE IF IsAnyStackSlot(source)
          THEN /\ moves_from_stack_slot_' =
                    MapPut(moves_from_stack_slot_, source.i,
                           [MapEntry(moves_from_stack_slot_, source.i) EXCEPT
                              !.registers = @ \cup {target_reg.i}])
               /\ UNCHANGED <<moves_from_register_, materializing_register_moves_>>
          ELSE /\ materializing_register_moves_' =
                    [materializing_register_moves_ EXCEPT ![target_reg.i] = node]
               /\ UNCHANGED <<moves_from_register_, moves_from_stack_slot_>>

RecordMoveToStackSlot(node, source, target_slot) ==
  IF debug_build /\ ~NoExistingMoveToStackSlot(target_slot)
  THEN /\ fatal' = TRUE
       /\ UNCHANGED <<moves_from_register_, moves_from_stack_slot_,
                      materializing_register_moves_,
                      materializing_stack_slot_moves_>>
  ELSE /\ fatal' = fatal
       /\ UNCHANGED materializing_register_moves_
       /\ IF IsAnyRegister(source)
          THEN /\ moves_from_register_' =
                    [moves_from_register_ EXCEPT
                       ![source.i].stack_slots = Append(@, target_slot.i)]
               /\ UNCHANGED <<moves_from_stack_slot_, materializing_stack_slot_moves_>>
          ELSE IF IsAnyStackSlot(source)
          THEN /\ moves_from_stack_slot_' =
                    IF source # target_slot
                    THEN MapPut(moves_from_stack_slot_, source.i,
                                [MapEntry(moves_from_stack_slot_, source.i) EXCEPT
                                   !.stack_slots = Append(@, target_slot.i)])
                    ELSE moves_from_stack_slot_
               /\ UNCHANGED <<moves_from_register_, materializing_stack_slot_moves_>>
          ELSE /\ materializing_stack_slot_moves_' =
                    Append(materializing_stack_slot_moves_,
                           [slot |-> target_slot.i, node |-> node])
               /\ UNCHANGED <<moves_from_register_, moves_from_stack_slot_>>

\* RecordMove(ValueNode*, InstructionOperand source, AllocatedOperand target)
RecordMove ==
  /\ pmr_pc = "record"
  /\ ~fatal
  /\ num_recorded < MaxMoves
  /\ \E source \in kAllocatableRegistersT \cup AllSlots \cup ConstNodes,
        target \in kAllocatableRegistersT \cup AllSlots :
        /\ IF IsAnyRegister(target)
           THEN RecordMoveToRegister(source, source, target)
           ELSE RecordMoveToStackSlot(source, source, target)
        /\ recorded' = recorded \cup {[src |-> source, tgt |-> target]}
        /\ indegree_ok' = (indegree_ok /\ \A m \in recorded : m.tgt # target)
  /\ num_recorded' = num_recorded + 1
  /\ UNCHANGED <<scratch_has_cycle_start_, debug_build, dcheck_ok, pmr_pc,
                 code, ip, val, nstack>>
  /\ UNCHANGED other_than_pmr

\* EmitMoves()
EmitMoves ==
  /\ pmr_pc = "record"
  /\ ~fatal
  /\ \E order \in Orderings(DOMAIN moves_from_stack_slot_) :
       LET st == EmitMovesFrom(
                   ResolverState(moves_from_register_, moves_from_stack_slot_,
                                 scratch_has_cycle_start_, <<>>, dcheck_ok),
                   materializing_register_moves_,
                   materializing_stack_slot_moves_, order)
       IN /\ moves_from_register_' = st.mr
          /\ moves_from_stack_slot_' = st.ms
          /\ scratch_has_cycle_start_' = st.flag
          /\ dcheck_ok' = st.ok
          /\ code' = st.out
  /\ pmr_pc' = "exec"
  /\ ip' = 1
  /\ UNCHANGED <<materializing_register_moves_, materializing_stack_slot_moves_,
                 debug_build, fatal, recorded, num_recorded, indegree_ok, val,
                 nstack>>
  /\ UNCHANGED other_than_pmr

\* ------------------------------------------------------------ the machine
\* The machine state is [val, nstack]: the contents of the locations and
\* the native stack below the frame.  A pop from an empty native stack reads
\* a word this code never wrote.
Exec(m, ins) ==
  CASE ins.op = "mov" -> [m EXCEPT !.val[ins.dst] = m.val[ins.src]]
    [] ins.op = "load" -> [m EXCEPT !.val[ins.dst] = ins.src]
    [] ins.op = "materialise" ->
         [m EXCEPT !.val = [l \in Locations |->
                              IF l = ins.dst THEN ins.src
                              ELSE IF l.k \in {"reg", "scratch"} THEN Junk
                              ELSE m.val[l]]]
    [] ins.op = "push" -> [m EXCEPT !.nstack = Append(@, m.val[ins.src])]
    [] ins.op = "pop" ->
         IF m.nstack = <<>>
         THEN [m EXCEPT !.val[ins.dst] = Junk]
         ELSE [m EXCEPT !.val[ins.dst] = m.nstack[Len(m.nstack)],
                        !.nstack = Front(m.nstack)]

\* the machine after instructions j .. Len(prog) of prog
RECURSIVE ExecFrom(_, _, _)
ExecFrom(m, prog, j) ==
  IF j > Len(prog) THEN m ELSE ExecFrom(Exec(m, prog[j]), prog, j + 1)

\* The emitted code runs to its end.
RunCode ==
  /\ pmr_pc = "exec"
  /\ ip <= Len(code)
  /\ LET m == ExecFrom([val |-> val, nstack |-> nstack], code, ip)
     IN /\ val' = m.val
        /\ nstack' = m.nstack
  /\ ip' = Len(code) + 1
  /\ UNCHANGED <<moves_from_register_, moves_from_stack_slot_,
                 materializing_register_moves_, materializing_stack_slot_moves_,
                 scratch_has_cycle_start_, debug_build, fatal, dcheck_ok,
                 recorded, num_recorded, indegree_ok, pmr_pc, code>>
  /\ UNCHANGED other_than_pmr

PmrStart(dbg) ==
  /\ moves_from_register_ = [c \in RegCodes |-> GapMoveTargets]
  /\ moves_from_stack_slot_ = EmptyMap
  /\ materializing_register_moves_ = [c \in RegCodes |-> Nil]
  /\ materializing_stack_slot_moves_ = <<>>
  /\ scratch_has_cycle_start_ = FALSE
  /\ debug_build = dbg
  /\ fatal = FALSE
  /\ dcheck_ok = TRUE
  /\ recorded = {}
  /\ num_recorded = 0
  /\ indegree_ok = TRUE
  /\ pmr_pc = "record"
  /\ code = <<>>
  /\ ip = 1
  /\ val = [l \in Locations |-> l]
  /\ nstack = <<>>

PmrInit == \E dbg \in BOOLEAN : PmrStart(dbg)

CgIdle ==
  /\ sp_delta = 0
  /\ frame_access = "fp"
  /\ caller_registers_saved_ = FALSE
  /\ fp_mode_ = "kIgnore"
  /\ temp_slots_ = 0
  /\ move_cycle_ = [pending_scratch_register_use |-> FALSE,
                    pending_double_scratch_register_use |-> FALSE]
  /\ scratch_regs = [gp |-> 0, fp |-> 0]
  /\ stack_slot_delta = 0
  /\ cg_instr = [op |-> "none"]
  /\ cg_result = [op |-> "none"]
  /\ cg_pc = "idle"

DeoptIdle ==
  /\ deopt_info = [kind |-> "none"]
  /\ translation_array = <<>>
  /\ deopt_literals_ = <<>>
  /\ current_input_location = 1
  /\ translation_index = 0
  /\ deopt_pc = "pending"

TrampIdle ==
  /\ materialising_moves = <<>>
  /\ save_accumulator = FALSE
  /\ phi_targets = {}
  /\ num_phis = 0
  /\ tr_pc = "record"

\* the resolver is not in use
PmrIdle == PmrStart(FALSE)

\* ------------------------------------------------- x64 frame construction
CalleeSavedCodes == 0 .. (NumCalleeSaved - 1)
CalleeSavedFPCodes == 0 .. (NumCalleeSavedFP - 1)

\* slots taken by one saved XMM register
QuadWordSlots == kQuadWordSize \div kSystemPointerSize

\* slots PushCallerSaved pushes: the caller-saved general registers, and
\* with kSave the XMM registers too
RequiredStackSizeForCallerSaved(fp_mode) ==
  kSystemPointerSize * NumCallerSaved
    + (IF fp_mode = "kSave" THEN kQuadWordSize * NumCallerSavedFP ELSE 0)

\* the deepest the model's stack can get, in slots
StackDepth ==
  4 + MaxSpillSlots + QuadWordSlots * NumCalleeSavedFP + NumCalleeSaved
    + MaxReturnSlots + MaxPushes + MaxFirstUnusedSlot + 2
    + RequiredStackSizeForCallerSaved("kSave") \div kSystemPointerSize

StackAddrs == (0 - StackDepth) .. 0

\* register contents at function entry
EntryGp == [c \in CalleeSavedCodes |-> 10 + c]
EntryXmm == [c \in CalleeSavedFPCodes |-> <<20 + c, 30 + c>>]
EntryRbp == 5
EntryRsp == 0

Machine(sp, bp, gp, xmm, mem) ==
  [rsp |-> sp, rbp |-> bp, gp |-> gp, xmm |-> xmm, mem |-> mem]

pushq(m, v) == [m EXCEPT !.rsp = @ - 1, !.mem[m.rsp - 1] = v]

AllocateStackSpace(m, slots) == [m EXCEPT !.rsp = @ - slots]

\* Movdqu(Operand(rsp, kQuadWordSize * slot_idx), reg)
MovdquStore(m, slot_idx, c) ==
  [m EXCEPT !.mem[m.rsp + QuadWordSlots * slot_idx] = m.xmm[c][1],
            !.mem[m.rsp + QuadWordSlots * slot_idx + 1] = m.xmm[c][2]]

\* Movdqu(reg, Operand(rsp, kQuadWordSize * slot_idx))
MovdquLoad(m, slot_idx, c) ==
  [m EXCEPT !.xmm[c] = <<m.mem[m.rsp + QuadWordSlots * slot_idx],
                         m.mem[m.rsp + QuadWordSlots * slot_idx + 1]>>]

\* words pushed after rbp by the prologue of each linkage: Prologue() pushes
\* context, function and argument count; StubPrologue pushes the frame marker
FixedSlotsPushed(kind) ==
  CASE kind = "C" -> 0
    [] kind = "JS" -> 3
    [] kind = "Stub" -> 1

RECURSIVE PushWords(_, _)
PushWords(m, n) == IF n = 0 THEN m ELSE PushWords(pushq(m, 1), n - 1)

\* pushq(rbp); movq(rbp, rsp); then the linkage's fixed slots
EnterFrame(m, kind) ==
  LET m1 == pushq(m, m.rbp)
  IN PushWords([m1 EXCEPT !.rbp = m1.rsp], FixedSlotsPushed(kind))

\* frame()->GetTotalFrameSlotCount() - frame()->GetFixedSlotCount(): the
\* spill slots, the callee-saved slots FinishFrame allocated, the return slots
RequiredSlots(f) ==
  f.spill + Cardinality(f.saves_fp) * QuadWordSlots + Cardinality(f.saves)
    + f.returns

\* the loop storing the XMM registers, from position j of the ascending list
RECURSIVE SaveFP(_, _, _)
SaveFP(m, list, j) ==
  IF j > Len(list) THEN m
  ELSE SaveFP(MovdquStore(m, j - 1, list[j]), list, j + 1)

\* for (Register reg : base::Reversed(saves)) pushq(reg)
RECURSIVE PushSaves(_, _, _)
PushSaves(m, list, j) ==
  IF j < 1 THEN m
  ELSE PushSaves(pushq(m, m.gp[list[j]]), list, j - 1)

ConstructFrame(m, f) ==
  LET m1 == IF f.has_frame THEN EnterFrame(m, f.kind) ELSE m
      required_slots ==
        RequiredSlots(f) - Cardinality(f.saves)
          - Cardinality(f.saves_fp) * QuadWordSlots - f.returns
      m2 == IF RequiredSlots(f) > 0 /\ required_slots > 0
            THEN AllocateStackSpace(m1, required_slots)
            ELSE m1
      fps == Ascending(f.saves_fp)
      m3 == IF f.saves_fp # {}
            THEN SaveFP(AllocateStackSpace(m2, Len(fps) * QuadWordSlots), fps, 1)
            ELSE m2
      gps == Ascending(f.saves)
      m4 == IF f.saves # {} THEN PushSaves(m3, gps, Len(gps)) ELSE m3
  IN IF f.returns > 0 THEN AllocateStackSpace(m4, f.returns) ELSE m4

\* for (Register reg : saves) popq(reg)
RECURSIVE PopSaves(_, _, _)
PopSaves(m, list, j) ==
  IF j > Len(list) THEN m
  ELSE PopSaves([m EXCEPT !.gp[list[j]] = m.mem[m.rsp], !.rsp = @ + 1],
                list, j + 1)

RECURSIVE RestoreFP(_, _, _)
RestoreFP(m, list, j) ==
  IF j > Len(list) THEN m
  ELSE RestoreFP(MovdquLoad(m, j - 1, list[j]), list, j + 1)

\* movq(rsp, rbp); popq(rbp)
DeconstructFrame(m) ==
  [m EXCEPT !.rsp = m.rbp + 1, !.rbp = m.mem[m.rbp]]

\* AssembleReturn, "Restore registers"
RestoreRegisters(m, f) ==
  LET gps == Ascending(f.saves)
      fps == Ascending(f.saves_fp)
      m1 == IF f.saves # {}
            THEN PopSaves([m EXCEPT !.rsp = @ + f.returns], gps, 1)
            ELSE m
  IN IF f.saves_fp # {}
     THEN [RestoreFP(m1, fps, 1) EXCEPT !.rsp = @ + Len(fps) * QuadWordSlots]
     ELSE m1

\* AssembleReturn up to the point where the arguments are popped
ReturnTeardown(m, f) ==
  LET m1 == RestoreRegisters(m, f)
  IN IF f.kind = "C" \/ f.has_frame THEN DeconstructFrame(m1) ELSE m1

\* The frame descriptors the instruction selector and register allocator
\* hand over: a function that needs frame slots has a frame, and so does a
\* C function.
FrameDescriptors ==
  {f \in [saves : SUBSET CalleeSavedCodes, saves_fp : SUBSET CalleeSavedFPCodes,
          returns : 0 .. MaxReturnSlots, spill : 0 .. MaxSpillSlots,
          has_frame : BOOLEAN, kind : {"C", "JS", "Stub"}] :
     /\ RequiredSlots(f) > 0 => f.has_frame
     /\ f.kind = "C" => f.has_frame}

CurrentMachine == Machine(rsp, rbp, gp_regs, xmm_regs, stack_mem)

SetMachine(m) ==
  /\ rsp' = m.rsp
  /\ rbp' = m.rbp
  /\ gp_regs' = m.gp
  /\ xmm_regs' = m.xmm
  /\ stack_mem' = m.mem

\* The code emitted by AssembleConstructFrame runs.
AssembleConstructFrame ==
  /\ frame_pc = "entry"
  /\ SetMachine(ConstructFrame(CurrentMachine, frame))
  /\ frame_pc' = "constructed"
  /\ UNCHANGED frame
  /\ UNCHANGED other_than_frame

\* The function body runs: it may overwrite the callee-saved registers the
\* descriptor lists and store into its return slots.
FunctionBody ==
  /\ frame_pc = "constructed"
  /\ \E clobber \in BOOLEAN, store_returns \in BOOLEAN :
       /\ gp_regs' = [c \in CalleeSavedCodes |->
                        IF clobber /\ c \in frame.saves THEN 99 ELSE gp_regs[c]]
       /\ xmm_regs' = [c \in CalleeSavedFPCodes |->
                         IF clobber /\ c \in frame.saves_fp
                         THEN <<98, 97>> ELSE xmm_regs[c]]
       /\ stack_mem' = [a \in StackAddrs |->
                          IF store_returns /\ a >= rsp /\ a < rsp + frame.returns
                          THEN 77 ELSE stack_mem[a]]
  /\ frame_pc' = "body"
  /\ UNCHANGED <<frame, rsp, rbp>>
  /\ UNCHANGED other_than_frame

\* The register restore and frame teardown emitted by AssembleReturn run.
AssembleReturn ==
  /\ frame_pc = "body"
  /\ SetMachine(ReturnTeardown(CurrentMachine, frame))
  /\ frame_pc' = "returned"
  /\ UNCHANGED frame
  /\ UNCHANGED other_than_frame

FrameStart(f) ==
  /\ frame = f
  /\ frame_pc = "entry"
  /\ rsp = EntryRsp
  /\ rbp = EntryRbp
  /\ gp_regs = EntryGp
  /\ xmm_regs = EntryXmm
  /\ stack_mem = [a \in StackAddrs |-> 0]

FrameIdle ==
  FrameStart([saves |-> {}, saves_fp |-> {}, returns |-> 0, spill |-> 0,
              has_frame |-> FALSE, kind |-> "Stub"])

FrameInit == \E f \in FrameDescriptors : FrameStart(f)

DcStart(c) ==
  /\ compiler = c
  /\ masm_code = <<>>
  /\ deferred_code = <<>>
  /\ deferred_infos = <<>>
  /\ ools_ = <<>>
  /\ num_labels = 0
  /\ taken = <<>>
  /\ taken_idx = 0
  /\ dc_pc = IF c = "maglev" THEN "start" ELSE "main"
  /\ num_nodes = 0
  /\ generated = <<>>
  /\ drain_iterations = 0

DcIdle == DcStart("maglev")

FrameSpecInit == FrameInit /\ PmrIdle /\ DcIdle /\ TrampIdle /\ DeoptIdle /\ CgIdle

FrameNext == AssembleConstructFrame \/ FunctionBody \/ AssembleReturn

SpecFrame == FrameSpecInit /\ [][FrameNext]_vars

\* C3: once the construct code, the body and the restore/teardown code have
\* run, the stack pointer, the frame pointer and every callee-saved register
\* of the descriptor have their values of function entry.
C3_ConstructReturnInverse ==
  frame_pc = "returned" =>
     /\ rsp = EntryRsp
     /\ rbp = EntryRbp
     /\ \A c \in frame.saves : gp_regs[c] = EntryGp[c]
     /\ \A c \in frame.saves_fp : xmm_regs[c] = EntryXmm[c]

MovesInit == PmrInit /\ FrameIdle /\ DcIdle /\ TrampIdle /\ DeoptIdle /\ CgIdle

MovesNext == RecordMove \/ EmitMoves \/ RunCode

SpecMoves == MovesInit /\ [][MovesNext]_vars

\* -------------------------------------------------------------- claims
EmitMovesDone == pmr_pc = "exec" /\ ip > Len(code)

\* the recorded moves whose source is a register or a stack slot
LocationMoves == {m \in recorded : ~IsConstant(m.src)}

\* C1: when every location is the target of at most one recorded move, then
\* after the code emitted by EmitMoves has run, every target holds the value
\* its source held before the code ran (each location starts out holding its
\* own name, so that value is the source itself).
C1_SimultaneousAssignment ==
  (EmitMovesDone /\ indegree_ok) =>
     \A m \in LocationMoves : val[m.tgt] = m.src

HasOp(o) == \E j \in 1 .. Len(code) : code[j].op = o

\* a cycle through stack slots was broken with the scratch register pushed
\* on the native stack, and the code has run to its end
C1_Witness ==
  /\ EmitMovesDone /\ indegree_ok
  /\ HasOp("push")
  /\ Cardinality(LocationMoves) = MaxMoves

RecordedTargets == {m.tgt : m \in recorded}

WritesRegister(ins) ==
  ins.op \in {"mov", "load", "pop"} /\ ins.dst.k \in {"reg", "scratch"}

\* C2: every register written by the code EmitMoves emits is either a target
\* of a recorded move or the scratch register.
C2_OnlyScratchTemp ==
  pmr_pc = "exec" =>
     \A j \in 1 .. Len(code) :
        WritesRegister(code[j]) =>
           (code[j].dst = kScratchRegT \/ code[j].dst \in RecordedTargets)

\* a move set with a cycle in which the scratch register was written, saved
\* on the stack and restored
C2_Witness ==
  /\ pmr_pc = "exec"
  /\ HasOp("pop")
  /\ \E j \in 1 .. Len(code) : code[j].op = "mov" /\ code[j].dst = kScratchRegT
  /\ Cardinality(recorded) = MaxMoves

\* ------------------------------------------------- deferred (out-of-line) code
Label(n) == [k |-> "label", i |-> n]

\* DeferredCodeInfo::deferred_code_label / OutOfLineCode::entry() of block b
DeferredLabel(b) == [k |-> "deferred", i |-> b]

\* a label owned by the caller of a macro (result_fits_one_byte)
ExternLabel == [k |-> "extern", i |-> 0]

NoLabel == [k |-> "none", i |-> 0]

Ins(op, l) == [op |-> op, l |-> l]

\* j(cc, label): conditional transfer
J(l) == Ins("j", l)

\* jmp(label): unconditional transfer
Jmp(l) == Ins("jmp", l)

Bind(l) == Ins("bind", l)

Trap == Ins("trap", NoLabel)

\* a builtin or runtime call that returns
Call == Ins("call", NoLabel)

\* a jump into another code object, which never comes back
TailCall == Ins("tailcall", NoLabel)

\* any straight-line instruction
Insn == Ins("insn", NoLabel)

\* the assembler together with the code generator state it writes to
Asm(c, q, infos, n) == [code |-> c, deferred |-> q, infos |-> infos, labels |-> n]

Put(a, seq) == [a EXCEPT !.code = @ \o seq]

\* ZoneLabelRef done(this)
NewLabels(a, n) == [a EXCEPT !.labels = @ + n]

DeferredCodeInfo(kind, done, other) ==
  [kind |-> kind, done |-> done, other |-> other]

\* allocates the block's info in the zone and appends it to the pending queue
PushDeferredCode(a, info) ==
  [a EXCEPT !.infos = Append(@, info),
            !.deferred = Append(@, Len(a.infos) + 1)]

\* the block PushDeferredCode returned last
LastPushed(a) == Len(a.infos)

\* PushDeferredCode, then a conditional jump to the block's label
JumpToDeferredIf(a, info) ==
  LET a1 == PushDeferredCode(a, info)
  IN Put(a1, <<J(DeferredLabel(LastPushed(a1)))>>)

Allocate(a) ==
  LET done == Label(a.labels + 1)
      a1 == Put(NewLabels(a, 1), <<Insn>>)
      a2 == JumpToDeferredIf(a1, DeferredCodeInfo("Allocate", done, NoLabel))
  IN Put(a2, <<Insn, Bind(done)>>)

AllocateHeapNumber(a) == Put(Allocate(a), <<Insn>>)

AllocateTwoByteString(a) == Put(Allocate(a), <<Insn>>)

StringFromCharCode(a, has_fits_label) ==
  LET done == Label(a.labels + 1)
      char_code_fits_one_byte == Label(a.labels + 2)
      a1 == Put(NewLabels(a, 2), <<Insn>>)
      a2 == JumpToDeferredIf(
              a1, DeferredCodeInfo("StringFromCharCode", done, NoLabel))
      a3 == IF has_fits_label THEN Put(a2, <<Bind(char_code_fits_one_byte)>>)
            ELSE a2
  IN Put(a3, <<Insn, Bind(done)>>)

StringCharCodeAt(a) ==
  LET done == Label(a.labels + 1)
      seq_string == Label(a.labels + 2)
      cons_string == Label(a.labels + 3)
      sliced_string == Label(a.labels + 4)
      loop == Label(a.labels + 5)
      two_byte_string == Label(a.labels + 6)
      a1 == PushDeferredCode(
              NewLabels(a, 6), DeferredCodeInfo("StringCharCodeAt", done, NoLabel))
      deferred_runtime_call == DeferredLabel(LastPushed(a1))
  IN Put(a1, <<Bind(loop), Insn,
               J(seq_string), J(cons_string), J(sliced_string),
               J(deferred_runtime_call),
               Insn, Jmp(loop),
               Bind(sliced_string), Insn, Jmp(loop),
               Bind(cons_string), Insn, J(deferred_runtime_call),
               Insn, Jmp(loop),
               Bind(seq_string), J(two_byte_string), Insn, Jmp(ExternLabel),
               Bind(two_byte_string), Insn,
               Bind(done)>>)

ToBoolean(a, fallthrough_when_true) ==
  LET is_true == Label(a.labels + 1)
      is_false == Label(a.labels + 2)
      info == DeferredCodeInfo("ToBoolean", is_true, is_false)
      a1 == JumpToDeferredIf(Put(NewLabels(a, 2), <<Insn>>), info)
      a2 == Put(a1, <<Insn, J(is_false), Insn, J(is_false),
                      Insn, J(is_false), Insn>>)
      a3 == JumpToDeferredIf(a2, info)
      a4 == JumpToDeferredIf(Put(a3, <<Insn>>), info)
  IN IF fallthrough_when_true THEN a4 ELSE Put(a4, <<Jmp(is_true)>>)

TruncateDoubleToInt32(a) ==
  LET done == Label(a.labels + 1)
      a1 == Put(NewLabels(a, 1), <<Insn>>)
      a2 == JumpToDeferredIf(
              a1, DeferredCodeInfo("TruncateDoubleToInt32", done, NoLabel))
  IN Put(a2, <<Bind(done), Insn>>)

MaglevPrologue(a, maglev_ool_prologue) ==
  IF maglev_ool_prologue THEN Put(a, <<Insn, Call>>)
  ELSE
    LET deferred_call_stack_guard_return == Label(a.labels + 1)
        a1 == PushDeferredCode(
                Put(NewLabels(a, 1), <<Insn>>),
                DeferredCodeInfo("OptimizedMarkerCheck", NoLabel, NoLabel))
        a2 == Put(a1, <<J(DeferredLabel(LastPushed(a1))), Insn>>)
        a3 == JumpToDeferredIf(
                a2, DeferredCodeInfo("StackGuard",
                                     deferred_call_stack_guard_return, NoLabel))
    IN Put(a3, <<Bind(deferred_call_stack_guard_return), Insn>>)

\* A variant of the body of Allocate's deferred block without the jump back.
GenerateAllocate_NoJump(a, info) == Put(a, <<Insn, Call, Insn>>)

\* the body of Allocate's deferred block
GenerateAllocate(a, info) == Put(a, <<Insn, Call, Insn, Jmp(info.done)>>)

\* A variant of the body of StringFromCharCode's deferred block whose nested
\* allocation enqueues a block of the same kind again.
GenerateStringFromCharCode_Again(a, info) ==
  LET a1 == JumpToDeferredIf(
              Put(a, <<Insn>>),
              DeferredCodeInfo("StringFromCharCode", info.done, NoLabel))
  IN Put(a1, <<Insn, Jmp(info.done)>>)

\* the body of StringFromCharCode's deferred block
GenerateStringFromCharCode(a, info) ==
  Put(AllocateTwoByteString(Put(a, <<Insn>>)), <<Insn, Jmp(info.done)>>)

\* OutOfLineRecordWrite::Generate
GenerateRecordWrite(a, info) == Put(a, <<J(info.done), Insn, Call>>)

\* DeferredCodeInfo::Generate: the lambda captured at the push site
Generate(a, info) ==
  CASE info.kind = "Allocate" -> GenerateAllocate(a, info)
    [] info.kind = "StringFromCharCode" -> GenerateStringFromCharCode(a, info)
    [] info.kind = "StringCharCodeAt" -> Put(a, <<Insn, Call, Insn, Jmp(info.done)>>)
    [] info.kind = "ToBoolean" -> Put(a, <<Insn, J(info.other), Jmp(info.done)>>)
    [] info.kind = "TruncateDoubleToInt32" ->
         Put(a, <<Insn, Call, Insn, Jmp(info.done)>>)
    [] info.kind = "OptimizedMarkerCheck" -> Put(a, <<TailCall, Trap>>)
    [] info.kind = "StackGuard" -> Put(a, <<Insn, Call, Insn, Jmp(info.done)>>)
    [] info.kind = "RecordWrite" -> GenerateRecordWrite(a, info)

\* A variant of TakeDeferredCode that hands the vector out and keeps it.
TakeDeferredCode_Keep(queue) == [taken |-> queue, rest |-> queue]

\* TakeDeferredCode: hands the vector out and leaves it empty
TakeDeferredCode(queue) == [taken |-> queue, rest |-> <<>>]

\* the code of kArchStoreWithWriteBarrier; the block goes on the code
\* generator's list of out-of-line code
ArchStoreWithWriteBarrier(a, value_can_be_smi) ==
  LET exit == Label(a.labels + 1)
      a1 == PushDeferredCode(
              NewLabels(a, 1), DeferredCodeInfo("RecordWrite", exit, NoLabel))
      entry == DeferredLabel(LastPushed(a1))
      a2 == Put(a1, <<Insn>>)
      a3 == IF value_can_be_smi THEN Put(a2, <<J(exit)>>) ELSE a2
  IN Put(a3, <<J(entry), Bind(exit)>>)

\* the out-of-line blocks of the TurboFan code generator, in list order: the
\* entry label, the body, the jump to the exit label
RECURSIVE OutOfLineBlocks(_, _, _)
OutOfLineBlocks(a, list, j) ==
  IF j > Len(list) THEN a
  ELSE LET info == a.infos[list[j]]
           a1 == Generate(Put(a, <<Bind(DeferredLabel(list[j]))>>), info)
       IN OutOfLineBlocks(Put(a1, <<Jmp(info.done)>>), list, j + 1)

\* the positions the blocks of the list occupy once OutOfLineBlocks ran
RECURSIVE OutOfLineExtents(_, _, _)
OutOfLineExtents(a, list, j) ==
  IF j > Len(list) THEN <<>>
  ELSE LET a1 == OutOfLineBlocks(a, <<list[j]>>, 1)
       IN <<[block |-> list[j], first |-> Len(a.code) + 1,
             last |-> Len(a1.code)]>>
          \o OutOfLineExtents(a1, list, j + 1)

CurrentAsm ==
  Asm(masm_code, IF compiler = "maglev" THEN deferred_code ELSE ools_,
      deferred_infos, num_labels)

SetAsm(a) ==
  /\ masm_code' = a.code
  /\ deferred_infos' = a.infos
  /\ num_labels' = a.labels
  /\ IF compiler = "maglev"
     THEN deferred_code' = a.deferred /\ UNCHANGED ools_
     ELSE ools_' = a.deferred /\ UNCHANGED deferred_code

\* the macro-assembler calls the nodes of the graph make
MacroCalls ==
  {[macro |-> m, flag |-> FALSE] :
     m \in {"Allocate", "AllocateHeapNumber", "StringCharCodeAt",
            "TruncateDoubleToInt32"}}
  \cup {[macro |-> m, flag |-> f] :
          m \in {"StringFromCharCode", "ToBoolean"}, f \in BOOLEAN}

EmitMacro(a, c) ==
  CASE c.macro = "Allocate" -> Allocate(a)
    [] c.macro = "AllocateHeapNumber" -> AllocateHeapNumber(a)
    [] c.macro = "StringFromCharCode" -> StringFromCharCode(a, c.flag)
    [] c.macro = "StringCharCodeAt" -> StringCharCodeAt(a)
    [] c.macro = "ToBoolean" -> ToBoolean(a, c.flag)
    [] c.macro = "TruncateDoubleToInt32" -> TruncateDoubleToInt32(a)

\* no more blocks than the main pass and the blocks nested in it can push
MaxBlocks == 2 + 3 * MaxNodes

\* MaglevCodeGeneratingNodeProcessor::PreProcessGraph
PreProcessGraph ==
  /\ compiler = "maglev"
  /\ dc_pc = "start"
  /\ \E maglev_ool_prologue \in BOOLEAN :
       SetAsm(MaglevPrologue(CurrentAsm, maglev_ool_prologue))
  /\ dc_pc' = "main"
  /\ UNCHANGED <<compiler, taken, taken_idx, num_nodes, generated,
                 drain_iterations>>
  /\ UNCHANGED other_than_dc

\* the main pass generates the code of one more node
ProcessNode ==
  /\ compiler = "maglev"
  /\ dc_pc = "main"
  /\ num_nodes < MaxNodes
  /\ \E c \in MacroCalls : SetAsm(EmitMacro(CurrentAsm, c))
  /\ num_nodes' = num_nodes + 1
  /\ UNCHANGED <<compiler, taken, taken_idx, dc_pc, generated,
                 drain_iterations>>
  /\ UNCHANGED other_than_dc

\* EmitDeferredCode: the while test holds, the pending vector is taken
EmitDeferredCodeTake ==
  /\ compiler = "maglev"
  /\ dc_pc \in {"main", "drain"}
  /\ deferred_code # <<>>
  /\ LET t == TakeDeferredCode(deferred_code)
     IN /\ taken' = t.taken
        /\ deferred_code' = t.rest
  /\ taken_idx' = 1
  /\ dc_pc' = "for"
  /\ drain_iterations' = drain_iterations + 1
  /\ UNCHANGED <<compiler, masm_code, deferred_infos, ools_, num_labels,
                 num_nodes, generated>>
  /\ UNCHANGED other_than_dc

\* EmitDeferredCode: one round of the for loop
EmitDeferredCodeGenerate ==
  /\ compiler = "maglev"
  /\ dc_pc = "for"
  /\ Len(deferred_infos) <= MaxBlocks
  /\ LET b == taken[taken_idx]
         a1 == Put(CurrentAsm, <<Bind(DeferredLabel(b))>>)
         a2 == Put(Generate(a1, deferred_infos[b]), <<Trap>>)
     IN /\ SetAsm(a2)
        /\ generated' = Append(generated,
                               [block |-> b, first |-> Len(masm_code) + 1,
                                last |-> Len(a2.code)])
  /\ taken_idx' = taken_idx + 1
  /\ dc_pc' = IF taken_idx = Len(taken) THEN "drain" ELSE "for"
  /\ UNCHANGED <<compiler, taken, num_nodes, drain_iterations>>
  /\ UNCHANGED other_than_dc

\* EmitDeferredCode: the while test fails, the function returns
EmitDeferredCodeReturn ==
  /\ compiler = "maglev"
  /\ dc_pc \in {"main", "drain"}
  /\ deferred_code = <<>>
  /\ dc_pc' = "done"
  /\ UNCHANGED <<compiler, masm_code, deferred_code, deferred_infos, ools_,
                 num_labels, taken, taken_idx, num_nodes, generated,
                 drain_iterations>>
  /\ UNCHANGED other_than_dc

\* EmitCode after EmitDeferredCode: EmitDeopts,
\* EmitExceptionHandlerTrampolines, FinishCode
FinishEmitCode ==
  /\ compiler = "maglev"
  /\ dc_pc = "done"
  /\ masm_code' = masm_code \o <<Insn>>
  /\ dc_pc' = "finished"
  /\ UNCHANGED <<compiler, deferred_code, deferred_infos, ools_, num_labels,
                 taken, taken_idx, num_nodes, generated, drain_iterations>>
  /\ UNCHANGED other_than_dc

\* CodeGenerator::AssembleArchInstruction, kArchStoreWithWriteBarrier
AssembleArchInstruction ==
  /\ compiler = "turbofan"
  /\ dc_pc = "main"
  /\ num_nodes < MaxNodes
  /\ \E value_can_be_smi \in BOOLEAN :
       SetAsm(ArchStoreWithWriteBarrier(CurrentAsm, value_can_be_smi))
  /\ num_nodes' = num_nodes + 1
  /\ UNCHANGED <<compiler, taken, taken_idx, dc_pc, generated,
                 drain_iterations>>
  /\ UNCHANGED other_than_dc

\* the TurboFan code generator assembles its out-of-line code
AssembleOutOfLineCode ==
  /\ compiler = "turbofan"
  /\ dc_pc = "main"
  /\ LET a == OutOfLineBlocks(CurrentAsm, ools_, 1)
     IN /\ masm_code' = a.code
        /\ generated' = generated \o OutOfLineExtents(CurrentAsm, ools_, 1)
  /\ ools_' = <<>>
  /\ dc_pc' = "finished"
  /\ UNCHANGED <<compiler, deferred_code, deferred_infos, num_labels, taken,
                 taken_idx, num_nodes, drain_iterations>>
  /\ UNCHANGED other_than_dc

DeferredInit ==
  /\ \E c \in {"maglev", "turbofan"} : DcStart(c)
  /\ PmrIdle
  /\ FrameIdle
  /\ TrampIdle
  /\ DeoptIdle
  /\ CgIdle

DeferredNext ==
  \/ PreProcessGraph
  \/ ProcessNode
  \/ EmitDeferredCodeTake
  \/ EmitDeferredCodeGenerate
  \/ EmitDeferredCodeReturn
  \/ FinishEmitCode
  \/ AssembleArchInstruction
  \/ AssembleOutOfLineCode

SpecDeferred == DeferredInit /\ [][DeferredNext]_vars

\* code generation is one sequential pass that runs to completion
SpecDeferredFair == SpecDeferred /\ WF_vars(DeferredNext)

\* ------------------------------------------------------------ claims C4-C6
Blocks == 1 .. Len(deferred_infos)

TimesGenerated(b) ==
  Cardinality({j \in 1 .. Len(generated) : generated[j].block = b})

TimesBound(b) ==
  Cardinality({p \in 1 .. Len(masm_code) :
                 masm_code[p] = Bind(DeferredLabel(b))})

EmitDeferredCodeReturned == compiler = "maglev" /\ dc_pc \in {"done", "finished"}

\* C4: no deferred block is bound or generated twice, and once
\* EmitDeferredCode has returned every block pushed by the main pass or by
\* the body of another block is bound once and generated once and the
\* pending queue is empty.
C4_EachBlockOnce ==
  compiler = "maglev" =>
     /\ \A b \in Blocks : TimesGenerated(b) <= 1 /\ TimesBound(b) <= 1
     /\ EmitDeferredCodeReturned =>
          /\ deferred_code = <<>>
          /\ \A b \in Blocks : TimesGenerated(b) = 1 /\ TimesBound(b) = 1

\* a block pushed by the body of another block went through the second
\* iteration of the drain loop
C4_Witness ==
  /\ EmitDeferredCodeReturned
  /\ drain_iterations >= 2
  /\ \E j \in 1 .. Len(generated) :
       /\ deferred_infos[generated[j].block].kind = "Allocate"
       /\ \E i \in 1 .. (j - 1) :
            /\ deferred_infos[generated[i].block].kind = "StringFromCharCode"
            /\ generated[i].block < generated[j].block

\* the body of an emitted block: what its Generate emitted, without the
\* label and without the Trap EmitDeferredCode puts after it
BodyOf(g) ==
  (g.first + 1) .. (g.last - (IF compiler = "maglev" THEN 1 ELSE 0))

BoundInside(g, l) == \E p \in BodyOf(g) : masm_code[p] = Bind(l)

\* the transfers to the entry label of block b, anywhere in the code
EntryTransfers(b) ==
  {p \in 1 .. Len(masm_code) :
     masm_code[p].op \in {"j", "jmp"} /\ masm_code[p].l = DeferredLabel(b)}

\* the unconditional jumps of the body that leave it
ExitJumps(g) ==
  {p \in BodyOf(g) :
     masm_code[p].op = "jmp" /\ ~BoundInside(g, masm_code[p].l)}

LastOf(g) == g.last - (IF compiler = "maglev" THEN 1 ELSE 0)

\* the body ends in its only unconditional jump out
OneTerminatingExit(g) ==
  Cardinality(ExitJumps(g)) = 1 /\ LastOf(g) \in ExitJumps(g)

\* the body never jumps out unconditionally and ends in a trap of its own
NonReturning(g) ==
  ExitJumps(g) = {} /\ masm_code[LastOf(g)].op = "trap"

C6_DrainTerminates ==
  compiler = "maglev" ~> [](EmitDeferredCodeReturned /\ deferred_code = <<>>)

\* the drain loop went round more than once before it returned
C6_Witness ==
  /\ dc_pc = "finished"
  /\ compiler = "maglev"
  /\ drain_iterations >= 2
  /\ deferred_code = <<>>

\* ------------------------------------------- exception handler trampolines
\* rax: the register the exception object arrives in
kReturnRegister0 == Reg(0)

\* a value node with an untagged (Int32, Uint32 or Float64) representation
\* that is not a constant: materialising it calls NewHeapNumber
UntaggedNodes == {[k |-> "untagged", i |-> n] : n \in 0 .. 1}

IsConstantNode(node) == node.k = "const"

\* the heap number MaterialiseValueNode makes of a node
Materialised(node) == [k |-> "heapnumber", i |-> node.i]

MaterialiseValueNode(dst, node) ==
  [op |-> IF IsConstantNode(node) THEN "load" ELSE "materialise",
   dst |-> dst, src |-> IF IsConstantNode(node) THEN node ELSE Materialised(node)]

\* struct Move of the trampoline builder
TrampolineMove(target, source) == [target |-> target, source |-> source]

\* the loop of EmitMaterialisationsAndPushResults from position j
RECURSIVE MaterialiseAndPush(_, _)
MaterialiseAndPush(moves, j) ==
  IF j > Len(moves) THEN <<>>
  ELSE (IF IsConstantNode(moves[j].source) THEN <<>>
        ELSE <<MaterialiseValueNode(kReturnRegister0, moves[j].source),
               PushI(kReturnRegister0)>>)
       \o MaterialiseAndPush(moves, j + 1)

\* A variant of EmitMaterialisationsAndPushResults that does not save the
\* accumulator.
EmitMaterialisationsAndPushResults_NoSave(moves, save_acc) ==
  IF Len(moves) = 0 THEN <<>> ELSE MaterialiseAndPush(moves, 1)

\* A variant of EmitMaterialisationsAndPushResults that computes each value in
\* the register of its target when the target is a register, and pushes
\* nothing.
EmitMaterialisationsAndPushResults_IntoTarget(moves, save_acc) ==
  [j \in 1 .. Len(moves) |->
     MaterialiseValueNode(IF IsAnyRegister(moves[j].target)
                          THEN moves[j].target ELSE kReturnRegister0,
                          moves[j].source)]

EmitMaterialisationsAndPushResults(moves, save_acc) ==
  IF Len(moves) = 0 THEN <<>>
  ELSE (IF save_acc THEN <<PushI(kReturnRegister0)>> ELSE <<>>)
       \o MaterialiseAndPush(moves, 1)

\* the loop of EmitPopMaterialisedResults over base::Reversed(moves), from j
RECURSIVE PopMaterialised(_, _)
PopMaterialised(moves, j) ==
  IF j < 1 THEN <<>>
  ELSE LET target == moves[j].target
           target_reg == IF IsAnyRegister(target) THEN target ELSE kScratchRegT
       IN <<IF IsConstantNode(moves[j].source)
            THEN MaterialiseValueNode(target_reg, moves[j].source)
            ELSE PopI(target_reg)>>
          \o (IF target_reg = kScratchRegT
              THEN <<Mov(target, kScratchRegT)>> ELSE <<>>)
          \o PopMaterialised(moves, j - 1)

\* A variant of EmitPopMaterialisedResults that visits the moves in the order
\* in which they were recorded.
EmitPopMaterialisedResults_Forward(moves, save_acc) ==
  IF Len(moves) = 0 THEN <<>>
  ELSE PopMaterialised([j \in 1 .. Len(moves) |-> moves[Len(moves) + 1 - j]],
                       Len(moves))
       \o (IF save_acc THEN <<PopI(kReturnRegister0)>> ELSE <<>>)

EmitPopMaterialisedResults(moves, save_acc) ==
  IF Len(moves) = 0 THEN <<>>
  ELSE PopMaterialised(moves, Len(moves))
       \o (IF save_acc THEN <<PopI(kReturnRegister0)>> ELSE <<>>)

\* the result locations of the phis recorded so far are taken
FreeTargets == (kAllocatableRegistersT \cup AllSlots) \ phi_targets

\* RecordMoves: the accumulator phi
RecordMovesAccumulator ==
  /\ tr_pc = "record"
  /\ num_phis < MaxPhis
  /\ ~save_accumulator
  /\ kReturnRegister0 \in FreeTargets
  /\ save_accumulator' = TRUE
  /\ phi_targets' = phi_targets \cup {kReturnRegister0}
  /\ num_phis' = num_phis + 1
  /\ UNCHANGED <<materialising_moves, tr_pc>>
  /\ UNCHANGED pmr_vars
  /\ UNCHANGED other_than_tramp

\* RecordMoves: a phi whose source is tagged becomes a direct move
RecordMovesTagged ==
  /\ tr_pc = "record"
  /\ num_phis < MaxPhis
  /\ \E source \in AllSlots \cup ConstNodes, target \in FreeTargets :
       /\ IF IsAnyRegister(target)
          THEN RecordMoveToRegister(source, source, target)
          ELSE RecordMoveToStackSlot(source, source, target)
       /\ recorded' = recorded \cup {[src |-> source, tgt |-> target]}
       /\ phi_targets' = phi_targets \cup {target}
  /\ num_phis' = num_phis + 1
  /\ UNCHANGED <<scratch_has_cycle_start_, debug_build, dcheck_ok, num_recorded,
                 indegree_ok, pmr_pc, code, ip, val, nstack>>
  /\ UNCHANGED <<materialising_moves, save_accumulator, tr_pc>>
  /\ UNCHANGED other_than_tramp

\* RecordMoves: a phi whose source is untagged becomes a materialising move
RecordMovesUntagged ==
  /\ tr_pc = "record"
  /\ num_phis < MaxPhis
  /\ \E source \in UntaggedNodes \cup ConstNodes, target \in FreeTargets :
       /\ materialising_moves' =
            Append(materialising_moves, TrampolineMove(target, source))
       /\ phi_targets' = phi_targets \cup {target}
  /\ num_phis' = num_phis + 1
  /\ UNCHANGED <<save_accumulator, tr_pc>>
  /\ UNCHANGED pmr_vars
  /\ UNCHANGED other_than_tramp

\* EmitTrampolineFor after RecordMoves: the materialisations, the direct
\* moves, the pops, the jump to the catch block
EmitTrampolineFor ==
  /\ tr_pc = "record"
  /\ \E order \in Orderings(DOMAIN moves_from_stack_slot_) :
       LET st == EmitMovesFrom(
                   ResolverState(moves_from_register_, moves_from_stack_slot_,
                                 scratch_has_cycle_start_, <<>>, dcheck_ok),
                   materializing_register_moves_,
                   materializing_stack_slot_moves_, order)
       IN /\ moves_from_register_' = st.mr
          /\ moves_from_stack_slot_' = st.ms
          /\ scratch_has_cycle_start_' = st.flag
          /\ dcheck_ok' = st.ok
          /\ code' = EmitMaterialisationsAndPushResults(materialising_moves,
                                                        save_accumulator)
                     \o st.out
                     \o EmitPopMaterialisedResults(materialising_moves,
                                                   save_accumulator)
  /\ tr_pc' = "emitted"
  /\ UNCHANGED <<materializing_register_moves_, materializing_stack_slot_moves_,
                 debug_build, fatal, recorded, num_recorded, indegree_ok,
                 pmr_pc, ip, val, nstack>>
  /\ UNCHANGED <<materialising_moves, save_accumulator, phi_targets, num_phis>>
  /\ UNCHANGED other_than_tramp

\* The trampoline runs and jumps to the catch block.
RunTrampoline ==
  /\ tr_pc = "emitted"
  /\ LET m == ExecFrom([val |-> val, nstack |-> nstack], code, 1)
     IN /\ val' = m.val
        /\ nstack' = m.nstack
  /\ tr_pc' = "jumped"
  /\ UNCHANGED <<moves_from_register_, moves_from_stack_slot_,
                 materializing_register_moves_, materializing_stack_slot_moves_,
                 scratch_has_cycle_start_, debug_build, fatal, dcheck_ok,
                 recorded, num_recorded, indegree_ok, pmr_pc, code, ip>>
  /\ UNCHANGED <<materialising_moves, save_accumulator, phi_targets, num_phis>>
  /\ UNCHANGED other_than_tramp

TrampInit == PmrIdle /\ TrampIdle /\ FrameIdle /\ DcIdle /\ DeoptIdle /\ CgIdle

TrampNext ==
  \/ RecordMovesAccumulator
  \/ RecordMovesTagged
  \/ RecordMovesUntagged
  \/ EmitTrampolineFor
  \/ RunTrampoline

SpecTramp == TrampInit /\ [][TrampNext]_vars

\* -------------------------------------------------------------- claim C7
\* C7: when the accumulator phi is live, the exception object that was in
\* kReturnRegister0 when the trampoline was entered is in kReturnRegister0
\* when the trampoline jumps to the catch block.
C7_AccumulatorPreserved ==
  (tr_pc = "jumped" /\ save_accumulator) =>
     val[kReturnRegister0] = kReturnRegister0

\* the accumulator was live while a value was materialised through
\* kReturnRegister0 and a direct move was made
C7_Witness ==
  /\ tr_pc = "jumped"
  /\ save_accumulator
  /\ \E j \in 1 .. Len(materialising_moves) :
       ~IsConstantNode(materialising_moves[j].source)
  /\ recorded # {}

\* ------------------------------------------------------ deopt translations
\* interpreter::Register, identified with its index
kFirstParamRegisterIndex == 0 - 8

kCallerPCOffsetRegisterIndex == 0 - 7

\* kMaxInt
kInvalidIndex == 2147483647

virtual_accumulator == kCallerPCOffsetRegisterIndex

invalid_value == kInvalidIndex

FromParameterIndex(i) == kFirstParamRegisterIndex - i

ToParameterIndex(reg) == kFirstParamRegisterIndex - reg

is_parameter(reg) == reg < 0

is_valid(reg) == reg # kInvalidIndex

\* StandardFrameConstants::kFunctionOffset
kFunctionOffset == 0 - 16

\* StandardFrameConstants::kExpressionsOffset
kExpressionsOffset == 0 - 32

\* C++ integer division, which truncates toward zero
TruncDiv(a, b) == IF a >= 0 THEN a \div b ELSE 0 - ((0 - a) \div b)

DeoptStackSlotIndexFromFPOffset(offset) ==
  1 - TruncDiv(offset, kSystemPointerSize)

\* MaglevAssembler::GetFramePointerOffsetForStackSlot
GetFramePointerOffsetForStackSlot(index) ==
  kExpressionsOffset - index * kSystemPointerSize

DeoptStackSlotFromStackSlot(operand) ==
  DeoptStackSlotIndexFromFPOffset(GetFramePointerOffsetForStackSlot(operand.i))

\* A variant of InReturnValues whose range is one register longer.
InReturnValues_OneMore(reg, result_location, result_size) ==
  IF result_size = 0 \/ ~is_valid(result_location) THEN FALSE
  ELSE reg >= result_location /\ reg <= result_location + result_size

InReturnValues(reg, result_location, result_size) ==
  IF result_size = 0 \/ ~is_valid(result_location) THEN FALSE
  ELSE reg >= result_location /\ reg <= result_location + result_size - 1

\* ---- the frames of a deopt point
\* an interpreted frame of a compilation unit; frame_state has a value for
\* every parameter, the context, the live locals and the live accumulator
InterpretedDeoptFrame(id, depth, pc, rc, live, acc) ==
  [type |-> "interpreted", id |-> id, inlining_depth |-> depth,
   parameter_count |-> pc, register_count |-> rc, live |-> live,
   accumulator_is_live |-> acc]

\* a builtin continuation frame with pc parameters
BuiltinContinuationDeoptFrame(id, pc) ==
  [type |-> "builtin_continuation", id |-> id, inlining_depth |-> 0,
   parameter_count |-> pc, register_count |-> 0, live |-> {},
   accumulator_is_live |-> FALSE]

\* the frame states of one unit: parameter count (receiver included), register
\* count, the live locals, the liveness of the accumulator
UnitShapes ==
  [parameter_count : 1 .. MaxParams, register_count : 0 .. MaxRegisters,
   live : SUBSET (0 .. (MaxRegisters - 1)), accumulator_is_live : BOOLEAN]

ValidShapes == {u \in UnitShapes : u.live \subseteq 0 .. (u.register_count - 1)}

\* the frame states drawn for the frames a top frame is inlined into: one or
\* all parameters, every local and the accumulator live, or none of them
AncestorShapes ==
  {u \in ValidShapes :
     /\ u.parameter_count \in {1, MaxParams}
     /\ u.register_count = MaxRegisters
     /\ u.live \in {{}, 0 .. (MaxRegisters - 1)}
     /\ u.accumulator_is_live = (u.live # {})}

\* the chains of n interpreted frames, top frame first: frame j is inlined
\* into frame j + 1 and the last frame is the function compiled
InterpretedChains(n) ==
  {[j \in 1 .. n |->
      LET u == IF j = 1 THEN top ELSE s[j - 1]
      IN InterpretedDeoptFrame(j, n - j, u.parameter_count, u.register_count,
                               u.live, u.accumulator_is_live)] :
     top \in ValidShapes, s \in [1 .. (n - 1) -> AncestorShapes]}

AllInterpretedChains ==
  UNION {InterpretedChains(n) : n \in 1 .. (MaxInliningDepth + 1)}

\* a builtin continuation frame on top of a chain
WithBuiltinContinuation(chain, pc) ==
  [j \in 1 .. (Len(chain) + 1) |->
     IF j = 1 THEN BuiltinContinuationDeoptFrame(1, pc)
     ELSE [chain[j - 1] EXCEPT !.id = j]]

\* the registers a call can leave its result in
ResultLocations(top) ==
  {virtual_accumulator}
    \cup {FromParameterIndex(i) : i \in 0 .. (top.parameter_count - 1)}
    \cup (0 .. (top.register_count - 1))

\* an eager deopt point, and a lazy one whose call leaves result_size values
\* from result_location on
EagerDeoptInfo(frames, feedback) ==
  [kind |-> "eager", frames |-> frames, feedback_to_update |-> feedback,
   result_location |-> invalid_value, result_size |-> 0]

LazyDeoptInfo(frames, feedback, result_location, result_size) ==
  [kind |-> "lazy", frames |-> frames, feedback_to_update |-> feedback,
   result_location |-> result_location, result_size |-> result_size]

\* ---- the objects literals are made of
SharedFunctionInfo(deopt_frame) == [k |-> "sfi", i |-> deopt_frame.id]

FunctionObject(deopt_frame) == [k |-> "function", i |-> deopt_frame.id]

FeedbackVector == [k |-> "feedback_vector", i |-> 0]

\* ---- the values of a frame and where the register allocator left them
Representations == <<"tagged", "int32", "uint32", "float64">>

\* the value node a frame state holds for a register
ValueOf(deopt_frame, reg) ==
  [k |-> "value", frame |-> deopt_frame.id, reg |-> reg,
   repr |-> Representations[((deopt_frame.id + reg) % 4) + 1]]

\* the context of a frame, and parameter i of a builtin continuation
ContextOf(deopt_frame) == [k |-> "context", frame |-> deopt_frame.id, reg |-> 0, repr |-> "tagged"]

BuiltinParameter(deopt_frame, i) ==
  [k |-> "builtin_parameter", frame |-> deopt_frame.id, reg |-> i, repr |-> "tagged"]

\* value->Reify(local_isolate_)
\* the object a value node reifies to: the nodes of one number reify to the
\* same object whatever their representation
Reify(value) == [k |-> "object", i |-> <<value.k, value.frame, value.reg>>]

\* the k-th input location of the deopt point
InputLocationAt(k) ==
  CASE k % 3 = 1 -> Reg(k)
    [] k % 3 = 2 -> StackSlot(k)
    [] OTHER -> Const(k)

\* ---- the translation array builder
TranslationEntry(op, args, input, deopt_frame) ==
  [op |-> op, args |-> args, input |-> input, frame |-> deopt_frame]

Builder(array, literals, cursor) ==
  [array |-> array, literals |-> literals, cursor |-> cursor]

\* TranslationArrayBuilder::Add of one opcode and its operands; frame names
\* the frame being written, 0 outside frames
AddEntry(b, op, args, deopt_frame) ==
  [b EXCEPT !.array = Append(@, TranslationEntry(op, args, 0, deopt_frame))]

\* the same for an entry made from the input location under the cursor
AddValueEntry(b, op, args, deopt_frame) ==
  [b EXCEPT !.array = Append(@, TranslationEntry(op, args, b.cursor, deopt_frame))]

\* GetDeoptLiteral: the index FindOrInsert gives the object
LiteralIndex(b, obj) ==
  IF \E j \in 1 .. Len(b.literals) : b.literals[j] = obj
  THEN (CHOOSE j \in 1 .. Len(b.literals) : b.literals[j] = obj) - 1
  ELSE Len(b.literals)

\* GetDeoptLiteral: the map afterwards
InsertLiteral(b, obj) ==
  IF \E j \in 1 .. Len(b.literals) : b.literals[j] = obj THEN b
  ELSE [b EXCEPT !.literals = Append(@, obj)]

StoreLiteral(b, obj, deopt_frame) ==
  AddEntry(InsertLiteral(b, obj), "LITERAL", <<LiteralIndex(b, obj)>>, deopt_frame)

StoreOptimizedOut(b, deopt_frame) == AddEntry(b, "OPTIMIZED_OUT", <<>>, deopt_frame)

BuildDeoptStoreRegister(b, operand, repr, deopt_frame) ==
  CASE repr = "tagged" -> AddValueEntry(b, "REGISTER", <<operand.i>>, deopt_frame)
    [] repr = "int32" -> AddValueEntry(b, "INT32_REGISTER", <<operand.i>>, deopt_frame)
    [] repr = "uint32" -> AddValueEntry(b, "UINT32_REGISTER", <<operand.i>>, deopt_frame)
    [] repr = "float64" -> AddValueEntry(b, "DOUBLE_REGISTER", <<operand.i>>, deopt_frame)

\* A variant of BuildDeoptStoreStackSlot that writes every slot as a tagged one.
BuildDeoptStoreStackSlot_Untyped(b, operand, repr, deopt_frame) ==
  AddValueEntry(b, "STACK_SLOT", <<DeoptStackSlotFromStackSlot(operand)>>,
                deopt_frame)

BuildDeoptStoreStackSlot(b, operand, repr, deopt_frame) ==
  LET stack_slot == DeoptStackSlotFromStackSlot(operand)
  IN CASE repr = "tagged" -> AddValueEntry(b, "STACK_SLOT", <<stack_slot>>, deopt_frame)
       [] repr = "int32" ->
            AddValueEntry(b, "INT32_STACK_SLOT", <<stack_slot>>, deopt_frame)
       [] repr = "uint32" ->
            AddValueEntry(b, "UINT32_STACK_SLOT", <<stack_slot>>, deopt_frame)
       [] repr = "float64" ->
            AddValueEntry(b, "DOUBLE_STACK_SLOT", <<stack_slot>>, deopt_frame)

\* BuildDeoptFrameSingleValue(value, input_location) with the operand of the
\* input location
BuildDeoptFrameSingleValueAt(b, value, operand) ==
     IF IsConstant(operand)
     THEN [StoreLiteral(b, Reify(value), value.frame) EXCEPT
             !.array[Len(b.array) + 1].input = b.cursor]
     ELSE IF IsAnyRegister(operand)
     THEN BuildDeoptStoreRegister(b, operand, value.repr, value.frame)
     ELSE BuildDeoptStoreStackSlot(b, operand, value.repr, value.frame)

\* BuildDeoptFrameSingleValue(value, *input_location)
BuildDeoptFrameSingleValue(b, value) ==
  BuildDeoptFrameSingleValueAt(b, value, InputLocationAt(b.cursor))

\* input_location++
AdvanceInputLocation(b) == [b EXCEPT !.cursor = @ + 1]

\* The statements of the builder run in order: the state b a statement
\* leaves is complete before the rest runs on it.
After(b, rest) == IF b.cursor >= 1 THEN rest ELSE b

\* A variant of the closure entry that is a stack slot at every depth.
ClosureEntry_AlwaysStackSlot(b, unit) ==
  AddEntry(b, "STACK_SLOT",
           <<DeoptStackSlotIndexFromFPOffset(kFunctionOffset)>>, unit.id)

\* BuildDeoptFrameValues: the closure
ClosureEntry(b, unit) ==
  IF unit.inlining_depth = 0
  THEN AddEntry(b, "STACK_SLOT",
                <<DeoptStackSlotIndexFromFPOffset(kFunctionOffset)>>, unit.id)
  ELSE StoreLiteral(b, FunctionObject(unit), unit.id)

\* BuildDeoptFrameValues: ForEachParameter from parameter i on
RECURSIVE ParameterEntries(_, _, _, _, _)
ParameterEntries(b, unit, result_location, result_size, i) ==
  IF i >= unit.parameter_count THEN b
  ELSE LET reg == FromParameterIndex(i)
           b1 == IF InReturnValues(reg, result_location, result_size)
                 THEN StoreOptimizedOut(b, unit.id)
                 ELSE AdvanceInputLocation(
                        BuildDeoptFrameSingleValue(b, ValueOf(unit, reg)))
       IN After(b1, ParameterEntries(b1, unit, result_location, result_size,
                                     i + 1))

\* while (i < limit) { StoreOptimizedOut(); i++; }
RECURSIVE OptimizedOutUpTo(_, _, _, _)
OptimizedOutUpTo(b, unit, i, limit) ==
  IF i >= limit THEN b
  ELSE LET b1 == StoreOptimizedOut(b, unit.id)
       IN After(b1, OptimizedOutUpTo(b1, unit, i + 1, limit))

\* BuildDeoptFrameValues: ForEachLocal over the live locals in ascending
\* order, from position j of the list, with the counter at i; then the rest
RECURSIVE LocalEntries(_, _, _, _, _, _, _)
LocalEntries(b, unit, result_location, result_size, live, j, i) ==
  IF j > Len(live) THEN OptimizedOutUpTo(b, unit, i, unit.register_count)
  ELSE LET reg == live[j]
       IN IF InReturnValues(reg, result_location, result_size)
          THEN LocalEntries(b, unit, result_location, result_size, live,
                            j + 1, i)
          ELSE LET b1 == OptimizedOutUpTo(b, unit, i, reg)
                   b2 == AdvanceInputLocation(
                           BuildDeoptFrameSingleValue(b1, ValueOf(unit, reg)))
               IN After(b1, After(b2,
                    LocalEntries(b2, unit, result_location, result_size, live,
                                 j + 1, (IF i < reg THEN reg ELSE i) + 1)))

\* A variant of the accumulator entry that writes nothing for an accumulator
\* that is dead or holds the result.
AccumulatorEntry_OnlyIfLive(b, unit, result_location, result_size) ==
  IF unit.accumulator_is_live
     /\ ~InReturnValues(virtual_accumulator, result_location, result_size)
  THEN AdvanceInputLocation(
         BuildDeoptFrameSingleValue(b, ValueOf(unit, virtual_accumulator)))
  ELSE b

\* BuildDeoptFrameValues: the accumulator
AccumulatorEntry(b, unit, result_location, result_size) ==
  IF unit.accumulator_is_live
     /\ ~InReturnValues(virtual_accumulator, result_location, result_size)
  THEN AdvanceInputLocation(
         BuildDeoptFrameSingleValue(b, ValueOf(unit, virtual_accumulator)))
  ELSE StoreOptimizedOut(b, unit.id)

BuildDeoptFrameValues(b, unit, result_location, result_size) ==
  LET b1 == ClosureEntry(b, unit)
      b2 == ParameterEntries(b1, unit, result_location, result_size, 0)
      b3 == AdvanceInputLocation(BuildDeoptFrameSingleValue(b2, ContextOf(unit)))
      b4 == LocalEntries(b3, unit, result_location, result_size,
                         Ascending(unit.live), 1, 0)
  IN After(b1, After(b2, After(b3, After(b4,
       AccumulatorEntry(b4, unit, result_location, result_size)))))

\* the parameters of a builtin continuation frame from parameter i on
RECURSIVE BuiltinParameterEntries(_, _, _)
BuiltinParameterEntries(b, deopt_frame, i) ==
  IF i >= deopt_frame.parameter_count THEN b
  ELSE LET b1 == AdvanceInputLocation(
                   BuildDeoptFrameSingleValue(b, BuiltinParameter(deopt_frame, i)))
       IN After(b1, BuiltinParameterEntries(b1, deopt_frame, i + 1))

\* the kBuiltinContinuationFrame case of BuildDeoptFrame and BuildLazyDeopt
BuildBuiltinContinuationFrame(b, deopt_frame, parent) ==
  LET sfi == SharedFunctionInfo(parent)
      b1 == AddEntry(InsertLiteral(b, sfi), "BUILTIN_CONTINUATION_FRAME",
                     <<deopt_frame.id, LiteralIndex(b, sfi), deopt_frame.parameter_count>>,
                     deopt_frame.id)
      b2 == StoreOptimizedOut(b1, deopt_frame.id)
      b3 == BuiltinParameterEntries(b2, deopt_frame, 0)
  IN After(b1, After(b2, After(b3,
       AdvanceInputLocation(
         BuildDeoptFrameSingleValue(b3, ContextOf(deopt_frame))))))

\* BeginInterpretedFrame(bytecode_position, literal, register_count,
\* return_offset, return_count)
BeginInterpretedFrame(b, deopt_frame, return_offset, return_count) ==
  LET sfi == SharedFunctionInfo(deopt_frame)
  IN AddEntry(InsertLiteral(b, sfi), "INTERPRETED_FRAME",
              <<deopt_frame.id, LiteralIndex(b, sfi), deopt_frame.register_count,
                return_offset, return_count>>, deopt_frame.id)

RECURSIVE BuildDeoptFrame(_, _, _)

\* A variant of BuildDeoptFrame that writes a frame before its parent.
BuildDeoptFrame_ChildFirst(b, frames, j) ==
  LET deopt_frame == frames[j]
      b1 == IF deopt_frame.type = "interpreted"
            THEN BuildDeoptFrameValues(BeginInterpretedFrame(b, deopt_frame, 0, 0),
                                       deopt_frame, invalid_value, 0)
            ELSE BuildBuiltinContinuationFrame(b, deopt_frame, frames[j + 1])
  IN After(b1, IF j < Len(frames) THEN BuildDeoptFrame(b1, frames, j + 1)
               ELSE b1)

\* BuildDeoptFrame(frame, current_input_location) for frame j of the chain;
\* the cursor is passed by reference
BuildDeoptFrame(b, frames, j) ==
  LET deopt_frame == frames[j]
      b1 == IF j < Len(frames) THEN BuildDeoptFrame(b, frames, j + 1) ELSE b
      b2 == BeginInterpretedFrame(b1, deopt_frame, 0, 0)
  IN After(b1,
       IF deopt_frame.type = "interpreted"
       THEN After(b2, BuildDeoptFrameValues(b2, deopt_frame, invalid_value, 0))
       ELSE BuildBuiltinContinuationFrame(b1, deopt_frame, frames[j + 1]))

RECURSIVE GetFrameCount(_, _)
GetFrameCount(frames, j) ==
  IF frames[j].type = "interpreted" THEN 1 + frames[j].inlining_depth
  ELSE 1 + GetFrameCount(frames, j + 1)

\* BeginTranslation and AddUpdateFeedback, common to both kinds of deopt
BeginTranslation(b, info) ==
  LET b1 == AddEntry(b, "BEGIN",
                     <<GetFrameCount(info.frames, 1),
                       GetFrameCount(info.frames, 1),
                       IF info.feedback_to_update THEN 1 ELSE 0>>, 0)
  IN IF info.feedback_to_update
     THEN AddEntry(InsertLiteral(b1, FeedbackVector), "UPDATE_FEEDBACK",
                   <<LiteralIndex(b1, FeedbackVector), 0>>, 0)
     ELSE b1

BuildEagerDeoptFrom(b, info) ==
  LET b0 == BeginTranslation(b, info)
  IN After(b0, BuildDeoptFrame(b0, info.frames, 1))

\* BuildLazyDeopt: return_offset of the top interpreted frame
ReturnOffset(info, top) ==
  IF info.result_location = virtual_accumulator THEN 0
  ELSE IF is_parameter(info.result_location)
  THEN top.register_count + top.parameter_count
         - ToParameterIndex(info.result_location)
  ELSE top.register_count - info.result_location

BuildLazyDeoptFrom(b, info) ==
  LET top == info.frames[1]
      b0 == BeginTranslation(b, info)
      b1 == IF Len(info.frames) > 1 THEN BuildDeoptFrame(b0, info.frames, 2)
            ELSE b0
      b2 == BeginInterpretedFrame(b1, top, ReturnOffset(info, top),
                                  info.result_size)
  IN After(b0, After(b1,
       IF top.type = "interpreted"
       THEN After(b2, BuildDeoptFrameValues(b2, top, info.result_location,
                                            info.result_size))
       ELSE BuildBuiltinContinuationFrame(b1, top, info.frames[2])))

CurrentBuilder == Builder(translation_array, deopt_literals_, 1)

\* EmitDeopts builds the translation of an eager deopt point
BuildEagerDeopt ==
  /\ deopt_pc = "pending"
  /\ deopt_info.kind = "eager"
  /\ LET b == BuildEagerDeoptFrom(CurrentBuilder, deopt_info)
     IN /\ translation_array' = b.array
        /\ deopt_literals_' = b.literals
        /\ current_input_location' = b.cursor
  /\ translation_index' = Len(translation_array)
  /\ deopt_pc' = "built"
  /\ UNCHANGED deopt_info
  /\ UNCHANGED other_than_deopt

\* EmitDeopts builds the translation of a lazy deopt point
BuildLazyDeopt ==
  /\ deopt_pc = "pending"
  /\ deopt_info.kind = "lazy"
  /\ LET b == BuildLazyDeoptFrom(CurrentBuilder, deopt_info)
     IN /\ translation_array' = b.array
        /\ deopt_literals_' = b.literals
        /\ current_input_location' = b.cursor
  /\ translation_index' = Len(translation_array)
  /\ deopt_pc' = "built"
  /\ UNCHANGED deopt_info
  /\ UNCHANGED other_than_deopt

DeoptInit ==
  /\ PmrIdle
  /\ FrameIdle
  /\ DcIdle
  /\ TrampIdle
  /\ CgIdle
  /\ translation_array = <<>>
  /\ deopt_literals_ = <<>>
  /\ current_input_location = 1
  /\ translation_index = 0
  /\ deopt_pc = "pending"
  /\ \E c \in AllInterpretedChains, fb \in BOOLEAN :
       \/ deopt_info = EagerDeoptInfo(c, fb)
       \/ deopt_info = LazyDeoptInfo(c, fb, invalid_value, 0)
       \/ \E pc \in 0 .. 1 :
            \/ deopt_info = EagerDeoptInfo(WithBuiltinContinuation(c, pc), fb)
            \/ deopt_info = LazyDeoptInfo(WithBuiltinContinuation(c, pc), fb,
                                          invalid_value, 0)
       \/ \E rl \in ResultLocations(c[1]), rs \in 1 .. MaxResultSize :
            deopt_info = LazyDeoptInfo(c, fb, rl, rs)

DeoptNext == BuildEagerDeopt \/ BuildLazyDeopt

SpecDeopt == DeoptInit /\ [][DeoptNext]_vars

\* ---------------------------------------------------------- claims C8-C10
DeoptBuilt == deopt_pc = "built"

DeoptFrames == deopt_info.frames

ArrayPositions == 1 .. Len(translation_array)

\* the positions of the entries written for frame j of the chain
EntriesOfFrame(j) == {p \in ArrayPositions : translation_array[p].frame = j}

\* the positions of the entries made from an input location
ValuePositions == {p \in ArrayPositions : translation_array[p].input > 0}

\* C8: frame j + 1 of the chain is the parent of frame j; every entry of a
\* frame's ancestors precedes every entry of the frame, for eager and lazy
\* deopts alike, and the entries take the input locations in array order,
\* each one once.
C8_ParentFirst ==
  DeoptBuilt =>
     /\ \A j \in 1 .. Len(DeoptFrames) : EntriesOfFrame(j) # {}
     /\ \A p, q \in ArrayPositions :
          (translation_array[q].frame > 0
             /\ translation_array[p].frame > translation_array[q].frame)
            => p < q
     /\ \A p, q \in ValuePositions :
          p < q => translation_array[p].input < translation_array[q].input
     /\ {translation_array[p].input : p \in ValuePositions} =
          1 .. (current_input_location - 1)

\* a lazy deopt whose top frame is inlined: both frames took input locations
C8_Witness ==
  /\ DeoptBuilt
  /\ deopt_info.kind = "lazy"
  /\ Len(DeoptFrames) = 2
  /\ DeoptFrames[1].type = "interpreted"
  /\ \A j \in 1 .. 2 : EntriesOfFrame(j) \cap ValuePositions # {}
  /\ DeoptFrames[2].accumulator_is_live
  /\ DeoptFrames[2].live # {}

\* the position of the entry that begins interpreted frame j
BeginOfFrame(j) ==
  CHOOSE p \in ArrayPositions :
    /\ translation_array[p].op = "INTERPRETED_FRAME"
    /\ translation_array[p].frame = j

InterpretedFrames ==
  {j \in 1 .. Len(DeoptFrames) : DeoptFrames[j].type = "interpreted"}

\* C9: the entry after the one that begins an interpreted frame is the
\* closure; it is the stack slot of the function at inlining depth 0 and a
\* literal of the unit's function at greater depths.
C9_ClosureEntry ==
  DeoptBuilt =>
     \A j \in InterpretedFrames :
        LET closure == translation_array[BeginOfFrame(j) + 1]
        IN IF DeoptFrames[j].inlining_depth = 0
           THEN /\ closure.op = "STACK_SLOT"
                /\ closure.args = <<1 - TruncDiv(kFunctionOffset, kSystemPointerSize)>>
                /\ closure.input = 0
           ELSE /\ closure.op = "LITERAL"
                /\ deopt_literals_[closure.args[1] + 1] =
                     FunctionObject(DeoptFrames[j])
                /\ closure.input = 0

\* a translation with a frame at depth 0 and an inlined frame
C9_Witness ==
  /\ DeoptBuilt
  /\ \E j \in InterpretedFrames : DeoptFrames[j].inlining_depth = 0
  /\ \E j \in InterpretedFrames : DeoptFrames[j].inlining_depth > 0

TopIsInterpreted ==
  deopt_info.kind = "lazy" /\ DeoptFrames[1].type = "interpreted"

\* the registers of the top frame, whether the frame state has a live value
\* for them, and the entry the translation holds for them
TopFrameSlots ==
  LET top == DeoptFrames[1]
      first == BeginOfFrame(1) + 2
  IN {[reg |-> FromParameterIndex(i), live |-> TRUE,
       entry |-> translation_array[first + i]] :
        i \in 0 .. (top.parameter_count - 1)}
     \cup {[reg |-> r, live |-> r \in top.live,
            entry |-> translation_array[first + top.parameter_count + 1 + r]] :
             r \in 0 .. (top.register_count - 1)}
     \cup {[reg |-> virtual_accumulator, live |-> top.accumulator_is_live,
            entry |-> translation_array[first + top.parameter_count + 1
                                         + top.register_count]]}

\* the register lies in [result_location, result_location + result_size - 1]
InResultRange(reg) ==
  /\ deopt_info.result_size > 0
  /\ reg >= deopt_info.result_location
  /\ reg - deopt_info.result_location <= deopt_info.result_size - 1

Elided(entry) == entry.op = "OPTIMIZED_OUT" /\ entry.input = 0

\* C10: in the top interpreted frame of a lazy deopt every register in the
\* result range has an optimized-out entry that took no input location,
\* every live value outside the range has an entry made from an input
\* location, and the frame took one input location per such value and one
\* for the context.
C10_ReturnValuesElided ==
  (DeoptBuilt /\ TopIsInterpreted) =>
     /\ \A s \in TopFrameSlots :
          /\ InResultRange(s.reg) => Elided(s.entry)
          /\ (s.live /\ ~InResultRange(s.reg)) =>
               (s.entry.op # "OPTIMIZED_OUT" /\ s.entry.input > 0)
     /\ Cardinality(EntriesOfFrame(1) \cap ValuePositions) =
          Cardinality({s \in TopFrameSlots : s.live /\ ~InResultRange(s.reg)}) + 1

\* a call with a two-register result: a live local inside the range, a live
\* local outside it, a live accumulator
C10_Witness ==
  /\ DeoptBuilt
  /\ TopIsInterpreted
  /\ deopt_info.result_size = 2
  /\ \E s \in TopFrameSlots : s.reg >= 0 /\ s.live /\ InResultRange(s.reg)
  /\ \E s \in TopFrameSlots : s.reg >= 0 /\ s.live /\ ~InResultRange(s.reg)
  /\ DeoptFrames[1].accumulator_is_live

\* ------------------------------------------- single values of a translation
\* Two value nodes and the operands of their input locations. A constant node
\* has a constant input location; a node of a number n is one of the
\* representations of n.
NumberNode(n, repr) == [k |-> "constant_node", frame |-> 1, reg |-> n, repr |-> repr]

ReprSet == {Representations[j] : j \in 1 .. Len(Representations)}

AllocatedOperands == kAllocatableRegistersT \cup AllSlots

ValueInputs ==
  {[value |-> NumberNode(n, r), operand |-> o] :
     n \in 0 .. 1, r \in ReprSet, o \in AllocatedOperands}
  \cup {[value |-> NumberNode(n, r), operand |-> Const(n)] :
          n \in 0 .. 1, r \in ReprSet}

\* two values of one frame are written one after the other
BuildSingleValues ==
  /\ deopt_pc = "pending"
  /\ deopt_info.kind = "values"
  /\ LET b1 == AdvanceInputLocation(
                 BuildDeoptFrameSingleValueAt(CurrentBuilder, deopt_info.first.value,
                                              deopt_info.first.operand))
         b2 == AdvanceInputLocation(
                 BuildDeoptFrameSingleValueAt(b1, deopt_info.second.value,
                                              deopt_info.second.operand))
     IN /\ translation_array' = b2.array
        /\ deopt_literals_' = b2.literals
        /\ current_input_location' = b2.cursor
  /\ translation_index' = Len(translation_array)
  /\ deopt_pc' = "built"
  /\ UNCHANGED deopt_info
  /\ UNCHANGED other_than_deopt

ValuesInit ==
  /\ PmrIdle
  /\ FrameIdle
  /\ DcIdle
  /\ TrampIdle
  /\ CgIdle
  /\ translation_array = <<>>
  /\ deopt_literals_ = <<>>
  /\ current_input_location = 1
  /\ translation_index = 0
  /\ deopt_pc = "pending"
  /\ \E v1 \in ValueInputs, v2 \in ValueInputs :
       deopt_info = [kind |-> "values", first |-> v1, second |-> v2]

ValuesNext == BuildSingleValues

SpecValues == ValuesInit /\ [][ValuesNext]_vars

\* what an entry says, without the bookkeeping of the model
Written(entry) == <<entry.op, entry.args>>

\* what the value is written from: location kind, code or offset, representation
Described(input) ==
  <<input.operand.k,
    IF IsConstant(input.operand) THEN 0 ELSE input.operand.i,
    input.value.repr>>

\* the (location, representation) an entry decodes to against the frame layout
DecodeEntry(entry) ==
  LET slot == CHOOSE o \in AllSlots : DeoptStackSlotFromStackSlot(o) = entry.args[1]
  IN CASE entry.op = "REGISTER" -> <<Reg(entry.args[1]), "tagged">>
       [] entry.op = "INT32_REGISTER" -> <<Reg(entry.args[1]), "int32">>
       [] entry.op = "UINT32_REGISTER" -> <<Reg(entry.args[1]), "uint32">>
       [] entry.op = "DOUBLE_REGISTER" -> <<Reg(entry.args[1]), "float64">>
       [] entry.op = "STACK_SLOT" -> <<slot, "tagged">>
       [] entry.op = "INT32_STACK_SLOT" -> <<slot, "int32">>
       [] entry.op = "UINT32_STACK_SLOT" -> <<slot, "uint32">>
       [] entry.op = "DOUBLE_STACK_SLOT" -> <<slot, "float64">>
       [] OTHER -> <<Nil, "none">>

ValuesBuilt == deopt_pc = "built" /\ deopt_info.kind = "values"

\* C11 as stated: two values that differ in location kind, register code or
\* stack-slot offset, or representation never get the same entry.
C11_EntryInjective ==
  ValuesBuilt =>
     (Described(deopt_info.first) # Described(deopt_info.second)
        => Written(translation_array[1]) # Written(translation_array[2]))

\* C11: two values whose input locations are registers or stack slots and that
\* differ in location or representation get different entries, and each entry
\* decodes to the location and representation it was written from.
C11_AllocatedEntryInjective ==
  ValuesBuilt =>
     /\ (/\ ~IsConstant(deopt_info.first.operand)
         /\ ~IsConstant(deopt_info.second.operand)
         /\ Described(deopt_info.first) # Described(deopt_info.second))
          => Written(translation_array[1]) # Written(translation_array[2])
     /\ ~IsConstant(deopt_info.first.operand) =>
          DecodeEntry(translation_array[1]) =
            <<deopt_info.first.operand, deopt_info.first.value.repr>>
     /\ ~IsConstant(deopt_info.second.operand) =>
          DecodeEntry(translation_array[2]) =
            <<deopt_info.second.operand, deopt_info.second.value.repr>>

\* a register and a stack slot of the same number, and two representations
C11_Witness ==
  /\ ValuesBuilt
  /\ IsAnyRegister(deopt_info.first.operand)
  /\ IsAnyStackSlot(deopt_info.second.operand)
  /\ deopt_info.first.operand.i = deopt_info.second.operand.i
  /\ deopt_info.first.value.repr = "int32"
  /\ deopt_info.second.value.repr = "float64"


\* ------------------------------------------------ x64 calls and tail calls
kReturnAddressStackSlotCount == 1
kElidedFrameSlots == 1
kFixedSlotCountAboveFp == 2

\* Frame::GetTotalFrameSlotCount(): the return address, the saved rbp, the
\* fixed slots of the linkage and the slots the frame allocated
GetTotalFrameSlotCount(f) ==
  kFixedSlotCountAboveFp + FixedSlotsPushed(f.kind) + RequiredSlots(f)

\* FrameAccessState::GetSPToFPSlotCount()
GetSPToFPSlotCount(f, delta) ==
  (IF f.has_frame THEN GetTotalFrameSlotCount(f) ELSE kElidedFrameSlots)
    - kFixedSlotCountAboveFp + delta

\* FrameAccessState::SetFrameAccessToDefault()
DefaultFrameAccess(f) == IF f.has_frame THEN "fp" ELSE "sp"

addq_rsp(m, slots) == [m EXCEPT !.rsp = @ + slots]

\* the machine and the tracked delta while one instruction is assembled
Tracked(m, delta, d) == [m |-> m, sp_delta |-> delta, stack_slot_delta |-> d]

\* the variant that raises the stack pointer without telling the frame
\* access state
AdjustStackPointerForTailCall_Untracked(st, f, tier_up, slot, shrink) ==
  LET d == IF tier_up
           THEN (GetTotalFrameSlotCount(f) - kReturnAddressStackSlotCount)
                  * (0 - 1)
           ELSE slot - (GetSPToFPSlotCount(f, st.sp_delta)
                          + kFixedSlotCountAboveFp)
  IN IF d > 0
     THEN Tracked(AllocateStackSpace(st.m, d), st.sp_delta + d, d)
     ELSE IF shrink /\ d < 0
          THEN Tracked(addq_rsp(st.m, 0 - d), st.sp_delta, d)
          ELSE Tracked(st.m, st.sp_delta, d)

AdjustStackPointerForTailCall(st, f, tier_up, new_slot_above_sp, shrink) ==
  LET d == IF tier_up
           THEN (GetTotalFrameSlotCount(f) - kReturnAddressStackSlotCount)
                  * (0 - 1)
           ELSE new_slot_above_sp
                  - (GetSPToFPSlotCount(f, st.sp_delta)
                       + kFixedSlotCountAboveFp)
  IN IF d > 0
     THEN Tracked(AllocateStackSpace(st.m, d), st.sp_delta + d, d)
     ELSE IF shrink /\ d < 0
          THEN Tracked(addq_rsp(st.m, 0 - d), st.sp_delta + d, d)
          ELSE Tracked(st.m, st.sp_delta, d)

\* the value an operand of a push holds
PushedValue(m, source) ==
  IF source.k = "reg" THEN m.gp[source.i] ELSE source.i

\* the loop over the push-compatible moves of the tail call's gap
RECURSIVE PushTailCallArguments(_, _, _, _)
PushTailCallArguments(st, f, pushes, j) ==
  IF j > Len(pushes) THEN st
  ELSE LET a == AdjustStackPointerForTailCall(st, f, FALSE, pushes[j].dst, TRUE)
           pushed == Tracked(pushq(a.m, PushedValue(a.m, pushes[j].src)),
                             a.sp_delta + 1, a.stack_slot_delta)
       IN PushTailCallArguments(pushed, f, pushes, j + 1)

TailCallBeforeGap(st, f, instr) ==
  LET pushes == instr.pushes
      st1 == IF pushes # <<>>
                /\ pushes[Len(pushes)].dst + 1 = instr.first_unused_slot_offset
             THEN PushTailCallArguments(st, f, pushes, 1)
             ELSE st
  IN AdjustStackPointerForTailCall(st1, f, instr.tier_up,
                                   instr.first_unused_slot_offset, FALSE)

TailCallAfterGap(st, f, instr) ==
  AdjustStackPointerForTailCall(st, f, instr.tier_up,
                                instr.first_unused_slot_offset, TRUE)

\* the operands a push-compatible move can read
PushSources == {[k |-> "imm", i |-> 7]}

\* the tail calls the instruction selector emits for a frame: a tail call
\* for tier-up is only made from a JS frame without callee-saved registers
\* and return slots, and its gap holds no push
TailCallInstructions(f) ==
  UNION {{[op |-> "tail_call", tier_up |-> FALSE,
           first_unused_slot_offset |-> fu, pushes |-> p] :
            p \in {<<>>} \cup {<<[dst |-> d, src |-> s]>> :
                                 d \in {fu - 1, fu - 2} \cap Nat,
                                 s \in PushSources}}
           \cup {[op |-> "tail_call", tier_up |-> t,
                  first_unused_slot_offset |-> fu, pushes |-> <<>>] :
                   t \in {tu \in {TRUE} :
                            /\ f.kind = "JS" /\ f.has_frame
                            /\ f.saves = {} /\ f.saves_fp = {}
                            /\ f.returns = 0}} :
           fu \in 0 .. MaxFirstUnusedSlot}

InBlock == frame_pc = "constructed" /\ cg_pc = "block"

\* a callee builds its frames below the stack pointer it returns with: the
\* slots below it hold nothing the caller can rely on
AfterCallee(m) ==
  [m EXCEPT !.mem = [a \in StackAddrs |-> IF a < m.rsp THEN 0 ELSE m.mem[a]]]

SetTracked(st) ==
  /\ SetMachine(st.m)
  /\ sp_delta' = st.sp_delta
  /\ stack_slot_delta' = st.stack_slot_delta

\* kX64Push of a register or an immediate
ArchPush ==
  /\ InBlock
  /\ ~caller_registers_saved_
  /\ sp_delta < MaxPushes
  /\ \E source \in PushSources, stack_decrement \in {8, 16} :
       LET m1 == AllocateStackSpace(CurrentMachine,
                                    (stack_decrement - kSystemPointerSize)
                                      \div kSystemPointerSize)
       IN /\ SetMachine(pushq(m1, PushedValue(m1, source)))
          /\ sp_delta' = sp_delta + stack_decrement \div kSystemPointerSize
  /\ UNCHANGED <<frame, frame_pc>>
  /\ UNCHANGED <<frame_access, caller_registers_saved_, fp_mode_, temp_slots_,
                 move_cycle_, scratch_regs, stack_slot_delta, cg_instr,
                 cg_result, cg_pc>>
  /\ UNCHANGED other_than_cg

\* kArchCallCodeObject: the callee pops the arguments pushed for it
ArchCallCodeObject ==
  /\ InBlock
  /\ ~caller_registers_saved_
  /\ sp_delta > 0
  /\ SetMachine(AfterCallee(addq_rsp(CurrentMachine, sp_delta)))
  /\ sp_delta' = 0
  /\ UNCHANGED <<frame, frame_pc>>
  /\ UNCHANGED <<frame_access, caller_registers_saved_, fp_mode_, temp_slots_,
                 move_cycle_, scratch_regs, stack_slot_delta, cg_instr,
                 cg_result, cg_pc>>
  /\ UNCHANGED other_than_cg

\* kArchSaveCallerRegisters
ArchSaveCallerRegisters ==
  /\ InBlock
  /\ ~caller_registers_saved_
  /\ sp_delta = 0
  /\ \E mode \in {"kIgnore", "kSave"} :
       LET bytes == RequiredStackSizeForCallerSaved(mode)
       IN /\ fp_mode_' = mode
          /\ SetMachine(PushWords(CurrentMachine, bytes \div kSystemPointerSize))
          /\ sp_delta' = sp_delta + bytes \div kSystemPointerSize
  /\ caller_registers_saved_' = TRUE
  /\ UNCHANGED <<frame, frame_pc>>
  /\ UNCHANGED <<frame_access, temp_slots_, move_cycle_, scratch_regs,
                 stack_slot_delta, cg_instr, cg_result, cg_pc>>
  /\ UNCHANGED other_than_cg

\* kArchRestoreCallerRegisters
ArchRestoreCallerRegisters ==
  /\ InBlock
  /\ caller_registers_saved_
  /\ sp_delta = RequiredStackSizeForCallerSaved(fp_mode_) \div kSystemPointerSize
  /\ LET bytes == RequiredStackSizeForCallerSaved(fp_mode_)
     IN /\ rsp' = rsp + bytes \div kSystemPointerSize
        /\ sp_delta' = sp_delta - bytes \div kSystemPointerSize
  /\ caller_registers_saved_' = FALSE
  /\ UNCHANGED <<frame, frame_pc, rbp, gp_regs, xmm_regs, stack_mem>>
  /\ UNCHANGED <<frame_access, fp_mode_, temp_slots_, move_cycle_,
                 scratch_regs, stack_slot_delta, cg_instr, cg_result, cg_pc>>
  /\ UNCHANGED other_than_cg

\* MacroAssembler::PrepareCallCFunction: room for the stack arguments and
\* for the old stack pointer, which is stored above them
PrepareCallCFunction(m, argument_slots) ==
  [m EXCEPT !.rsp = @ - (argument_slots + 1),
            !.mem[m.rsp - 1] = m.rsp]

\* MacroAssembler::CallCFunction: after the call the stack pointer is
\* reloaded from the slot above the stack arguments
CallCFunction(m, argument_slots) ==
  AfterCallee([m EXCEPT !.rsp = m.mem[m.rsp + argument_slots]])

\* the variant that keeps the delta it found
SPDeltaAfterCallCFunction_Kept(saved, fp_mode) ==
  LET kept == sp_delta
  IN IF saved
     THEN kept + RequiredStackSizeForCallerSaved(fp_mode)
                   \div kSystemPointerSize
     ELSE kept

\* the variant that clears the delta and does not add the saved registers
SPDeltaAfterCallCFunction_NotResynced(saved, fp_mode) == sp_delta - sp_delta

\* what kArchCallCFunction leaves in the tracked delta
SPDeltaAfterCallCFunction(saved, fp_mode) ==
  LET cleared == 0
  IN IF saved
     THEN cleared + RequiredStackSizeForCallerSaved(fp_mode)
                      \div kSystemPointerSize
     ELSE cleared

\* the stack pointer the prologue leaves
FrameBaseRsp(f) ==
  EntryRsp - (IF f.has_frame
              THEN GetTotalFrameSlotCount(f) - kReturnAddressStackSlotCount
              ELSE 0)

\* kArchPrepareCallCFunction, reached while the tracked delta describes the
\* stack
ArchPrepareCallCFunction ==
  /\ InBlock
  /\ rsp = FrameBaseRsp(frame) - sp_delta
  /\ \E argument_slots \in 0 .. 1 :
       /\ cg_instr' = [op |-> "call_c", argument_slots |-> argument_slots]
       /\ SetMachine(PrepareCallCFunction(CurrentMachine, argument_slots))
  /\ frame_access' = "fp"
  /\ cg_pc' = "c_prepared"
  /\ UNCHANGED <<frame, frame_pc>>
  /\ UNCHANGED <<sp_delta, caller_registers_saved_, fp_mode_, temp_slots_,
                 move_cycle_, scratch_regs, stack_slot_delta, cg_result>>
  /\ UNCHANGED other_than_cg

\* kArchCallCFunction
ArchCallCFunction ==
  /\ frame_pc = "constructed"
  /\ cg_pc = "c_prepared"
  /\ SetMachine(CallCFunction(CurrentMachine, cg_instr.argument_slots))
  /\ frame_access' = DefaultFrameAccess(frame)
  /\ sp_delta' = SPDeltaAfterCallCFunction(caller_registers_saved_, fp_mode_)
  /\ cg_instr' = [op |-> "none"]
  /\ cg_result' = [op |-> "call_c", sp_delta_before |-> sp_delta]
  /\ cg_pc' = "block"
  /\ UNCHANGED <<frame, frame_pc>>
  /\ UNCHANGED <<caller_registers_saved_, fp_mode_, temp_slots_, move_cycle_,
                 scratch_regs, stack_slot_delta>>
  /\ UNCHANGED other_than_cg

\* kArchPrepareTailCall
ArchPrepareTailCall ==
  /\ InBlock
  /\ ~caller_registers_saved_
  /\ rbp' = IF frame.has_frame THEN stack_mem[rbp] ELSE rbp
  /\ frame_access' = "sp"
  /\ cg_pc' = "prepared"
  /\ UNCHANGED <<frame, frame_pc, rsp, gp_regs, xmm_regs, stack_mem>>
  /\ UNCHANGED <<sp_delta, caller_registers_saved_, fp_mode_, temp_slots_,
                 move_cycle_, scratch_regs, stack_slot_delta, cg_instr,
                 cg_result>>
  /\ UNCHANGED other_than_cg

AssembleTailCallBeforeGap ==
  /\ frame_pc = "constructed"
  /\ cg_pc = "prepared"
  /\ \E instr \in TailCallInstructions(frame) :
       /\ cg_instr' = instr
       /\ SetTracked(TailCallBeforeGap(Tracked(CurrentMachine, sp_delta, 0),
                                       frame, instr))
  /\ cg_result' = [op |-> "tail_call", sp_delta_before |-> sp_delta]
  /\ cg_pc' = "gap"
  /\ UNCHANGED <<frame, frame_pc>>
  /\ UNCHANGED <<frame_access, caller_registers_saved_, fp_mode_, temp_slots_,
                 move_cycle_, scratch_regs>>
  /\ UNCHANGED other_than_cg

AssembleTailCallAfterGap ==
  /\ frame_pc = "constructed"
  /\ cg_pc = "gap"
  /\ SetTracked(TailCallAfterGap(Tracked(CurrentMachine, sp_delta, 0),
                                 frame, cg_instr))
  /\ cg_pc' = "adjusted"
  /\ UNCHANGED <<frame, frame_pc>>
  /\ UNCHANGED <<frame_access, caller_registers_saved_, fp_mode_, temp_slots_,
                 move_cycle_, scratch_regs, cg_instr, cg_result>>
  /\ UNCHANGED other_than_cg

\* kArchTailCallCodeObject, kArchTailCallAddress: the jump
ArchTailCall ==
  /\ frame_pc = "constructed"
  /\ cg_pc = "adjusted"
  /\ sp_delta' = 0
  /\ frame_access' = DefaultFrameAccess(frame)
  /\ cg_pc' = "left"
  /\ UNCHANGED frame_vars
  /\ UNCHANGED <<caller_registers_saved_, fp_mode_, temp_slots_, move_cycle_,
                 scratch_regs, stack_slot_delta, cg_instr, cg_result>>
  /\ UNCHANGED other_than_cg

CgBlock ==
  /\ sp_delta = 0
  /\ frame_access = "fp"
  /\ caller_registers_saved_ = FALSE
  /\ fp_mode_ = "kIgnore"
  /\ temp_slots_ = 0
  /\ move_cycle_ = [pending_scratch_register_use |-> FALSE,
                    pending_double_scratch_register_use |-> FALSE]
  /\ scratch_regs = [gp |-> 0, fp |-> 0]
  /\ stack_slot_delta = 0
  /\ cg_instr = [op |-> "none"]
  /\ cg_result = [op |-> "none"]
  /\ cg_pc = "block"

\* the frames the calls are assembled in: with and without a callee-saved
\* register and a spill slot, for every linkage
CallFrames ==
  {f \in FrameDescriptors :
     /\ f.saves \subseteq {0}
     /\ f.saves_fp = {}
     /\ f.returns = 0
     /\ f.spill <= 1}

CallsInit ==
  /\ \E f \in CallFrames : FrameStart(f)
  /\ CgBlock
  /\ PmrIdle
  /\ DcIdle
  /\ TrampIdle
  /\ DeoptIdle

CallsNext ==
  \/ AssembleConstructFrame
  \/ ArchPush
  \/ ArchCallCodeObject
  \/ ArchSaveCallerRegisters
  \/ ArchPrepareCallCFunction
  \/ ArchCallCFunction
  \/ ArchRestoreCallerRegisters
  \/ ArchPrepareTailCall
  \/ AssembleTailCallBeforeGap
  \/ AssembleTailCallAfterGap
  \/ ArchTailCall

SpecCalls == CallsInit /\ [][CallsNext]_vars


\* the slot delta of a tail call that is not for tier-up, at the point where
\* AssembleTailCallAfterGap starts
SlotDelta ==
  cg_instr.first_unused_slot_offset
    - (GetSPToFPSlotCount(frame, sp_delta) + kFixedSlotCountAboveFp)

AfterGapStep == cg_pc = "gap" /\ cg_pc' = "adjusted"

\* C12: for a tail call that is not for tier-up and whose slot delta d is
\* negative, AssembleTailCallAfterGap raises the stack pointer by exactly |d|
\* slots, changes the tracked SP delta by d and writes no callee-saved
\* register.
C12_NegativeDeltaShrinks ==
  [][(AfterGapStep /\ ~cg_instr.tier_up /\ SlotDelta < 0)
       => /\ rsp' = rsp + (0 - SlotDelta)
          /\ sp_delta' = sp_delta + SlotDelta
          /\ gp_regs' = gp_regs
          /\ xmm_regs' = xmm_regs]_vars

C12_Witness ==
  /\ cg_pc = "adjusted"
  /\ ~cg_instr.tier_up
  /\ stack_slot_delta < 0
  /\ cg_instr.pushes # <<>>
  /\ frame.saves # {}

\* C13: after the stack adjustment of a tail call for tier-up the stack
\* pointer is the one the function was entered with, whatever the tracked SP
\* delta was at the tail call.
C13_TierUpResetsSP ==
  (cg_pc = "adjusted" /\ cg_instr.tier_up) => rsp = EntryRsp

CallCFunctionStep == cg_pc = "c_prepared" /\ cg_pc' = "block"

\* C14 as stated: after kArchCallCFunction the tracked SP delta is zero and
\* is not recomputed, whatever it was before the call.
C14_DeltaCleared == [][CallCFunctionStep => sp_delta' = 0]_vars

\* C14: after kArchCallCFunction the tracked SP delta is zero when no caller
\* registers are saved, and the slot count of the saved caller registers
\* when they are; it does not depend on its value before the call.
C14_DeltaClearedThenResynced ==
  [][CallCFunctionStep
       => sp_delta' = IF caller_registers_saved_
                      THEN RequiredStackSizeForCallerSaved(fp_mode_)
                             \div kSystemPointerSize
                      ELSE 0]_vars

C14_Witness ==
  /\ cg_pc = "block"
  /\ cg_result.op = "call_c"
  /\ cg_result.sp_delta_before # sp_delta


\* --------------------------------------------- store with write barrier
\* RecordWriteMode, in the order of the enumeration
RecordWriteModes ==
  <<"kValueIsMap", "kValueIsPointer", "kValueIsEphemeronKey", "kValueIsAny">>

ModeRank(mode) == CHOOSE j \in 1 .. Len(RecordWriteModes) : RecordWriteModes[j] = mode

\* the page flags the barrier tests
kPointersFromHereAreInterestingMask == {"POINTERS_FROM_HERE_ARE_INTERESTING"}
kPointersToHereAreInterestingOrInSharedHeapMask ==
  {"POINTERS_TO_HERE_ARE_INTERESTING", "IN_SHARED_HEAP"}

Jump(op, target) == [op |-> op, target |-> target]
CheckPageFlag(reg, mask, cc, target) ==
  [op |-> "CheckPageFlag", reg |-> reg, mask |-> mask, cc |-> cc,
   target |-> target]
Plain(op) == [op |-> op, target |-> "none"]

\* the variant that calls the routine without testing the page of the value
OutOfLineRecordWrite_NoValueCheck(mode, compress_pointers) ==
  (IF compress_pointers THEN <<Plain("DecompressTaggedPointer")>> ELSE <<>>)
    \o <<Plain("leaq"),
         IF mode = "kValueIsEphemeronKey"
         THEN Plain("CallEphemeronKeyBarrier")
         ELSE Plain("CallRecordWriteStubSaveRegisters"),
         Jump("jmp", "exit")>>

\* OutOfLineRecordWrite::Generate, followed by the jump back every
\* out-of-line block ends with
OutOfLineRecordWrite(mode, compress_pointers) ==
  (IF compress_pointers THEN <<Plain("DecompressTaggedPointer")>> ELSE <<>>)
    \o <<CheckPageFlag("value",
                       kPointersToHereAreInterestingOrInSharedHeapMask,
                       "zero", "exit"),
         Plain("leaq"),
         IF mode = "kValueIsEphemeronKey"
         THEN Plain("CallEphemeronKeyBarrier")
         ELSE Plain("CallRecordWriteStubSaveRegisters"),
         Jump("jmp", "exit")>>

\* case kArchStoreWithWriteBarrier, kArchAtomicStoreWithWriteBarrier: the
\* inline code, up to bind(ool->exit())
StoreWithWriteBarrier(instr) ==
  <<IF instr.atomic THEN Plain("AtomicStoreTaggedField")
    ELSE Plain("StoreTaggedField")>>
    \o (IF ModeRank(instr.mode) > ModeRank("kValueIsPointer")
        THEN <<Jump("JumpIfSmi", "exit")>> ELSE <<>>)
    \o <<CheckPageFlag("object", kPointersFromHereAreInterestingMask,
                       "not_zero", "entry")>>

\* the emitted code runs from position j of the inline code (region "inline")
\* or of the out-of-line block (region "ool") until it reaches the exit
\* label; the result is the list of instructions executed
RECURSIVE RunBarrier(_, _, _, _, _)
RunBarrier(emitted, region, j, operands, trace) ==
  LET block == IF region = "inline" THEN emitted.inline ELSE emitted.ool
  IN IF j > Len(block) THEN Append(trace, "exit")
     ELSE LET ins == block[j]
              jumps ==
                CASE ins.op = "jmp" -> TRUE
                  [] ins.op = "JumpIfSmi" -> operands.value.smi
                  [] ins.op = "CheckPageFlag" ->
                       LET set == operands[ins.reg].flags \cap ins.mask
                       IN IF ins.cc = "zero" THEN set = {} ELSE set # {}
                  [] OTHER -> FALSE
              t1 == Append(trace, ins.op)
          IN IF ~jumps THEN RunBarrier(emitted, region, j + 1, operands, t1)
             ELSE IF ins.target = "entry"
                  THEN RunBarrier(emitted, "ool", 1, operands, t1)
                  ELSE Append(t1, "exit")

PageFlagSets ==
  SUBSET {"POINTERS_TO_HERE_ARE_INTERESTING", "IN_SHARED_HEAP"}

\* the stores the instruction selector emits and the operands they meet: a
\* value can be a Smi only under a mode above kValueIsPointer
BarrierStart(atomic, mode, compress, smi, value_flags, object_flags) ==
  /\ cg_instr = [op |-> "store_with_write_barrier", atomic |-> atomic,
                 mode |-> mode, compress_pointers |-> compress,
                 value |-> [smi |-> smi, flags |-> value_flags],
                 object |-> [smi |-> FALSE, flags |-> object_flags]]
  /\ cg_result = [op |-> "none"]
  /\ cg_pc = "assemble"

AssembleStoreWithWriteBarrier ==
  /\ cg_pc = "assemble"
  /\ cg_instr.op = "store_with_write_barrier"
  /\ cg_result' = [op |-> "emitted",
                   inline |-> StoreWithWriteBarrier(cg_instr),
                   ool |-> OutOfLineRecordWrite(cg_instr.mode,
                                                cg_instr.compress_pointers)]
  /\ cg_pc' = "emitted"
  /\ UNCHANGED <<sp_delta, frame_access, caller_registers_saved_, fp_mode_,
                 temp_slots_, move_cycle_, scratch_regs, stack_slot_delta,
                 cg_instr>>
  /\ UNCHANGED frame_vars
  /\ UNCHANGED other_than_cg

\* the emitted store runs on its operands
StoreRuns ==
  /\ cg_pc = "emitted"
  /\ cg_instr.op = "store_with_write_barrier"
  /\ cg_result' = [cg_result EXCEPT
                     !.op = "ran",
                     !.inline = RunBarrier(cg_result, "inline", 1,
                                           cg_instr, <<>>)]
  /\ cg_pc' = "ran"
  /\ UNCHANGED <<sp_delta, frame_access, caller_registers_saved_, fp_mode_,
                 temp_slots_, move_cycle_, scratch_regs, stack_slot_delta,
                 cg_instr>>
  /\ UNCHANGED frame_vars
  /\ UNCHANGED other_than_cg

CgQuiet ==
  /\ sp_delta = 0
  /\ frame_access = "fp"
  /\ caller_registers_saved_ = FALSE
  /\ fp_mode_ = "kIgnore"
  /\ temp_slots_ = 0
  /\ move_cycle_ = [pending_scratch_register_use |-> FALSE,
                    pending_double_scratch_register_use |-> FALSE]
  /\ scratch_regs = [gp |-> 0, fp |-> 0]
  /\ stack_slot_delta = 0

BarrierInit ==
  /\ CgQuiet
  /\ FrameIdle
  /\ PmrIdle
  /\ DcIdle
  /\ TrampIdle
  /\ DeoptIdle
  /\ \E atomic \in BOOLEAN, compress \in BOOLEAN, smi \in BOOLEAN,
        j \in 1 .. Len(RecordWriteModes),
        value_flags \in PageFlagSets,
        object_flags \in SUBSET kPointersFromHereAreInterestingMask :
       /\ smi => j > ModeRank("kValueIsPointer") /\ value_flags = {}
       /\ BarrierStart(atomic, RecordWriteModes[j], compress, smi,
                       value_flags, object_flags)

BarrierNext == AssembleStoreWithWriteBarrier \/ StoreRuns

SpecBarrier == BarrierInit /\ [][BarrierNext]_vars

StoreRan == cg_pc = "ran" /\ cg_instr.op = "store_with_write_barrier"

Executed(op) ==
  \E j \in 1 .. Len(cg_result.inline) : cg_result.inline[j] = op

RecordRoutineCalled ==
  Executed("CallRecordWriteStubSaveRegisters")
    \/ Executed("CallEphemeronKeyBarrier")

\* the store is the first instruction executed and the run ends at the exit
\* label
StoreFirstExitLast ==
  /\ cg_result.inline[1] \in {"StoreTaggedField", "AtomicStoreTaggedField"}
  /\ cg_result.inline[Len(cg_result.inline)] = "exit"

\* C15 as stated: the store comes first, and the record routine is called
\* only if the value is not a Smi, the page of the object has the
\* pointers-from-here flag and the page of the value has the
\* pointers-to-here flag.
C15_BarrierOnlyIfToHere ==
  StoreRan =>
    /\ StoreFirstExitLast
    /\ RecordRoutineCalled =>
         /\ ~cg_instr.value.smi
         /\ "POINTERS_FROM_HERE_ARE_INTERESTING" \in cg_instr.object.flags
         /\ "POINTERS_TO_HERE_ARE_INTERESTING" \in cg_instr.value.flags

\* C15: the store comes first; the record routine is called exactly when the
\* value is not a Smi, the page of the object has the pointers-from-here
\* flag and the page of the value has the pointers-to-here flag or the
\* in-shared-heap flag; in every case the run ends at the exit label.
C15_BarrierIffInteresting ==
  StoreRan =>
    /\ StoreFirstExitLast
    /\ RecordRoutineCalled <=>
         /\ ~cg_instr.value.smi
         /\ "POINTERS_FROM_HERE_ARE_INTERESTING" \in cg_instr.object.flags
         /\ cg_instr.value.flags # {}

C15_Witness ==
  /\ StoreRan
  /\ RecordRoutineCalled
  /\ cg_instr.value.flags = {"IN_SHARED_HEAP"}


\* ------------------------------------------------ protected instructions
MaxInstructions == 2

\* one machine instruction of the code buffer: the instruction of the block
\* it was emitted for, whether it accesses the instruction's memory operand,
\* and the out-of-line block it belongs to (0: inline)
Machine1(name, size, access) == [name |-> name, size |-> size, access |-> access]

RECURSIVE pc_offset_upto(_, _)
pc_offset_upto(buffer, n) ==
  IF n = 0 THEN 0 ELSE pc_offset_upto(buffer, n - 1) + buffer[n].size

pc_offset(a) == pc_offset_upto(a.buffer, Len(a.buffer))

EmitInsn(a, k, ool, m1) ==
  [a EXCEPT !.buffer = Append(@, [name |-> m1.name, size |-> m1.size,
                                  access |-> m1.access, instr |-> k,
                                  ool |-> ool])]

\* EmitOOLTrapIfNeeded: a WasmProtectedInstructionTrap is created for a
\* protected access
EmitOOLTrapIfNeeded(a, k, instr, pc) ==
  IF instr.memory_access_mode = "kMemoryAccessProtected"
  THEN [a EXCEPT !.ools = Append(@, [pc |-> pc, instr |-> k])]
  ELSE a

\* EmitStore<memory_order_seq_cst> of a word with the offset taken before the
\* register copy
EmitStore_OffsetBeforeCopy(a, k, order) ==
  IF order = "relaxed"
  THEN [a |-> EmitInsn(a, k, 0, Machine1("movq", 3, TRUE)),
        store_instr_offset |-> pc_offset(a)]
  ELSE LET a1 == EmitInsn(a, k, 0, Machine1("movq_scratch", 3, FALSE))
       IN [a |-> EmitInsn(a1, k, 0, Machine1("xchgq", 4, TRUE)),
           store_instr_offset |-> pc_offset(a)]

\* EmitStore<order>(tasm, operand, value, kWord64)
EmitStore(a, k, order) ==
  IF order = "relaxed"
  THEN [a |-> EmitInsn(a, k, 0, Machine1("movq", 3, TRUE)),
        store_instr_offset |-> pc_offset(a)]
  ELSE LET a1 == EmitInsn(a, k, 0, Machine1("movq_scratch", 3, FALSE))
       IN [a |-> EmitInsn(a1, k, 0, Machine1("xchgq", 4, TRUE)),
           store_instr_offset |-> pc_offset(a1)]

\* EmitTSANAwareStore, in a build without V8_IS_TSAN
EmitTSANAwareStore(a, k, instr, order) ==
  LET stored == EmitStore(a, k, order)
  IN IF instr.has_memory_access_mode
     THEN EmitOOLTrapIfNeeded(stored.a, k, instr, stored.store_instr_offset)
     ELSE stored.a

RECURSIVE EmitAll(_, _, _, _)
EmitAll(a, k, list, j) ==
  IF j > Len(list) THEN a ELSE EmitAll(EmitInsn(a, k, 0, list[j]), k, list, j + 1)

\* AssembleArchInstruction, for the opcodes of the model
AssembleMemoryInstruction(a, k, instr) ==
  CASE instr.kind = "kX64Movq_load" ->
         EmitInsn(EmitOOLTrapIfNeeded(a, k, instr, pc_offset(a)), k, 0,
                  Machine1("movq", 3, TRUE))
    [] instr.kind = "kX64Movq_store" ->
         EmitTSANAwareStore(a, k, instr, "relaxed")
    [] instr.kind = "kX64Word64AtomicStoreWord64" ->
         EmitTSANAwareStore(a, k, instr, "seq_cst")
    [] instr.kind = "kAtomicExchangeInt8" ->
         EmitAll(EmitOOLTrapIfNeeded(a, k, instr, pc_offset(a)), k,
                 <<Machine1("xchgb", 3, TRUE), Machine1("movsxbl", 3, FALSE)>>,
                 1)
    [] instr.kind = "kAtomicAddInt8" ->
         EmitAll(EmitOOLTrapIfNeeded(a, k, instr, pc_offset(a)), k,
                 <<Machine1("movb", 2, TRUE), Machine1("movl", 2, FALSE),
                   Machine1("addb", 2, FALSE), Machine1("lock", 1, FALSE),
                   Machine1("cmpxchgb", 4, TRUE), Machine1("j", 2, FALSE)>>,
                 1)

\* the out-of-line block of trap n: WasmProtectedInstructionTrap::Generate
GenerateProtectedInstructionTrap(a, n) ==
  LET ool == a.ools[n]
      a1 == [a EXCEPT !.protected_instructions =
                         Append(@, [instr_offset |-> ool.pc,
                                    landing_offset |-> pc_offset(a)])]
  IN EmitInsn(a1, ool.instr, n, Machine1("near_call", 5, FALSE))

MemoryInstructionKinds ==
  {"kX64Movq_load", "kX64Movq_store", "kX64Word64AtomicStoreWord64",
   "kAtomicExchangeInt8", "kAtomicAddInt8"}

\* the memory instructions the selector emits: only an opcode with the access
\* mode field can be protected
MemoryInstructions ==
  {i \in [kind : MemoryInstructionKinds, has_memory_access_mode : BOOLEAN,
          memory_access_mode : {"kMemoryAccessDirect",
                                "kMemoryAccessProtected"}] :
     i.memory_access_mode = "kMemoryAccessProtected"
       => i.has_memory_access_mode}

EmptyBuffer == [buffer |-> <<>>, ools |-> <<>>, protected_instructions |-> <<>>,
                assembled |-> 0, generated |-> 0]

ProtectedStart(block) ==
  /\ cg_instr = [op |-> "block", instructions |-> block]
  /\ cg_result = EmptyBuffer
  /\ cg_pc = "instructions"

\* the next instruction of the block is assembled
AssembleProtectedInstruction ==
  /\ cg_pc = "instructions"
  /\ cg_instr.op = "block"
  /\ cg_result.assembled < Len(cg_instr.instructions)
  /\ LET k == cg_result.assembled + 1
     IN cg_result' =
          [AssembleMemoryInstruction(cg_result, k, cg_instr.instructions[k])
             EXCEPT !.assembled = k]
  /\ UNCHANGED <<sp_delta, frame_access, caller_registers_saved_, fp_mode_,
                 temp_slots_, move_cycle_, scratch_regs, stack_slot_delta,
                 cg_instr, cg_pc>>
  /\ UNCHANGED frame_vars
  /\ UNCHANGED other_than_cg

\* AssembleCode: after the last instruction the out-of-line blocks are
\* generated, one at a time
AssembleOutOfLineTrap ==
  /\ cg_pc \in {"instructions", "out_of_line"}
  /\ cg_instr.op = "block"
  /\ cg_result.assembled = Len(cg_instr.instructions)
  /\ cg_result.generated < Len(cg_result.ools)
  /\ cg_result' =
       [GenerateProtectedInstructionTrap(cg_result, cg_result.generated + 1)
          EXCEPT !.generated = cg_result.generated + 1]
  /\ cg_pc' = "out_of_line"
  /\ UNCHANGED <<sp_delta, frame_access, caller_registers_saved_, fp_mode_,
                 temp_slots_, move_cycle_, scratch_regs, stack_slot_delta,
                 cg_instr>>
  /\ UNCHANGED frame_vars
  /\ UNCHANGED other_than_cg

FinishProtectedCode ==
  /\ cg_pc \in {"instructions", "out_of_line"}
  /\ cg_instr.op = "block"
  /\ cg_result.assembled = Len(cg_instr.instructions)
  /\ cg_result.generated = Len(cg_result.ools)
  /\ cg_pc' = "finished"
  /\ UNCHANGED <<sp_delta, frame_access, caller_registers_saved_, fp_mode_,
                 temp_slots_, move_cycle_, scratch_regs, stack_slot_delta,
                 cg_instr, cg_result>>
  /\ UNCHANGED frame_vars
  /\ UNCHANGED other_than_cg

ProtectedInit ==
  /\ CgQuiet
  /\ FrameIdle
  /\ PmrIdle
  /\ DcIdle
  /\ TrampIdle
  /\ DeoptIdle
  /\ \E n \in 1 .. MaxInstructions :
       \E block \in [1 .. n -> MemoryInstructions] : ProtectedStart(block)

ProtectedNext ==
  \/ AssembleProtectedInstruction
  \/ AssembleOutOfLineTrap
  \/ FinishProtectedCode

SpecProtected == ProtectedInit /\ [][ProtectedNext]_vars

ProtectedFinished == cg_pc = "finished" /\ cg_instr.op = "block"

\* positions of the code buffer
BufferPositions == 1 .. Len(cg_result.buffer)

OffsetOf(j) == pc_offset_upto(cg_result.buffer, j - 1)

\* the first machine instruction of instruction k that accesses its memory
\* operand
FirstAccess(k) ==
  Min({j \in BufferPositions :
         /\ cg_result.buffer[j].instr = k
         /\ cg_result.buffer[j].ool = 0
         /\ cg_result.buffer[j].access})

\* the first machine instruction of the out-of-line block made for
\* instruction k
TrapBlockStart(k) ==
  Min({j \in BufferPositions :
         cg_result.buffer[j].instr = k /\ cg_result.buffer[j].ool # 0})

\* the records whose fault pc lies in the code of instruction k
RecordsOf(k) ==
  {n \in 1 .. Len(cg_result.protected_instructions) :
     \E j \in BufferPositions :
       /\ cg_result.buffer[j].instr = k
       /\ cg_result.buffer[j].ool = 0
       /\ OffsetOf(j) = cg_result.protected_instructions[n].instr_offset}

\* C16: once the code is assembled, every protected instruction has exactly
\* one record, whose fault pc is the offset of the machine instruction that
\* accesses memory (the exchange of a sequentially consistent store) and
\* whose landing pc is the start of the instruction's out-of-line trap
\* block; an instruction that is not protected has no record.
C16_OneRecordPerProtected ==
  ProtectedFinished =>
    /\ Len(cg_result.protected_instructions)
         = Cardinality({k \in DOMAIN cg_instr.instructions :
                          cg_instr.instructions[k].memory_access_mode
                            = "kMemoryAccessProtected"})
    /\ \A k \in DOMAIN cg_instr.instructions :
         IF cg_instr.instructions[k].memory_access_mode
              = "kMemoryAccessProtected"
         THEN /\ Cardinality(RecordsOf(k)) = 1
              /\ \A n \in RecordsOf(k) :
                   /\ cg_result.protected_instructions[n].instr_offset
                        = OffsetOf(FirstAccess(k))
                   /\ cg_result.protected_instructions[n].landing_offset
                        = OffsetOf(TrapBlockStart(k))
         ELSE RecordsOf(k) = {}

C16_Witness ==
  /\ ProtectedFinished
  /\ Len(cg_instr.instructions) = 2
  /\ cg_instr.instructions[1].kind = "kX64Movq_load"
  /\ cg_instr.instructions[1].memory_access_mode = "kMemoryAccessDirect"
  /\ cg_instr.instructions[2].kind = "kX64Word64AtomicStoreWord64"
  /\ cg_instr.instructions[2].memory_access_mode = "kMemoryAccessProtected"
  /\ Len(cg_result.protected_instructions) = 1


\* ------------------------------------------- X64OperandConverter operands
\* enum AddressingMode, in the order of the enumeration
AddressingModes ==
  <<"kMode_None", "kMode_MR", "kMode_MRI", "kMode_MR1", "kMode_MR2",
    "kMode_MR4", "kMode_MR8", "kMode_MR1I", "kMode_MR2I", "kMode_MR4I",
    "kMode_MR8I", "kMode_M1", "kMode_M2", "kMode_M4", "kMode_M8",
    "kMode_M1I", "kMode_M2I", "kMode_M4I", "kMode_M8I", "kMode_Root",
    "kMode_MCR", "kMode_MCRI">>

AddressingModeRank(mode) ==
  CHOOSE j \in 1 .. Len(AddressingModes) : AddressingModes[j] = mode

\* the variant that returns the cursor without moving it
NextOffset_Stuck(offset) == [i |-> offset, offset |-> offset]

\* NextOffset: the input to read, and the cursor after it
NextOffset(offset) == [i |-> offset, offset |-> offset + 1]

\* ScaleFor(one, mode): log2 of the scale factor
ScaleFor(one, mode) == AddressingModeRank(mode) - AddressingModeRank(one)

\* inputs are numbered from 0
InputAt(instr, i) == instr.inputs[i + 1]

Operand(base, index, scale, disp, offset) ==
  [base |-> base, index |-> index, scale |-> scale, disp |-> disp,
   offset |-> offset, fatal |-> FALSE]

NoRegister == [k |-> "none", i |-> 0]
kRootRegister == [k |-> "root", i |-> 0]
kPtrComprCageBaseRegister == [k |-> "cage_base", i |-> 0]

Unreachable(offset) ==
  [base |-> NoRegister, index |-> NoRegister, scale |-> 0, disp |-> 0,
   offset |-> offset, fatal |-> TRUE]

\* MemoryOperand(size_t* offset): the operand, the cursor it leaves, and
\* whether it ran into UNREACHABLE()
MemoryOperand(instr, offset) ==
  LET mode == instr.mode
      n1 == NextOffset(offset)
      n2 == NextOffset(n1.offset)
      n3 == NextOffset(n2.offset)
  IN CASE mode = "kMode_MR" ->
            Operand(InputAt(instr, n1.i), NoRegister, 0, 0, n1.offset)
       [] mode = "kMode_MRI" ->
            Operand(InputAt(instr, n1.i), NoRegister, 0,
                    InputAt(instr, n2.i).i, n2.offset)
       [] mode \in {"kMode_MR1", "kMode_MR2", "kMode_MR4", "kMode_MR8"} ->
            Operand(InputAt(instr, n1.i), InputAt(instr, n2.i),
                    ScaleFor("kMode_MR1", mode), 0, n2.offset)
       [] mode \in {"kMode_MR1I", "kMode_MR2I", "kMode_MR4I", "kMode_MR8I"} ->
            Operand(InputAt(instr, n1.i), InputAt(instr, n2.i),
                    ScaleFor("kMode_MR1I", mode), InputAt(instr, n3.i).i,
                    n3.offset)
       [] mode = "kMode_M1" ->
            Operand(InputAt(instr, n1.i), NoRegister, 0, 0, n1.offset)
       [] mode = "kMode_M2" -> Unreachable(offset)
       [] mode \in {"kMode_M4", "kMode_M8"} ->
            Operand(NoRegister, InputAt(instr, n1.i),
                    ScaleFor("kMode_M1", mode), 0, n1.offset)
       [] mode \in {"kMode_M1I", "kMode_M2I", "kMode_M4I", "kMode_M8I"} ->
            Operand(NoRegister, InputAt(instr, n1.i),
                    ScaleFor("kMode_M1I", mode), InputAt(instr, n2.i).i,
                    n2.offset)
       [] mode = "kMode_Root" ->
            Operand(kRootRegister, NoRegister, 0, InputAt(instr, n1.i).i,
                    n1.offset)
       [] mode = "kMode_MCR" ->
            Operand(kPtrComprCageBaseRegister, InputAt(instr, n1.i), 0, 0,
                    n1.offset)
       [] mode = "kMode_MCRI" ->
            Operand(kPtrComprCageBaseRegister, InputAt(instr, n1.i), 0,
                    InputAt(instr, n2.i).i, n2.offset)
       [] mode = "kMode_None" -> Unreachable(offset)

\* what each addressing mode is made of: an explicit base register, an
\* index register, a displacement
ModeHasBase(mode) ==
  mode \in {"kMode_MR", "kMode_MRI", "kMode_MR1", "kMode_MR2", "kMode_MR4",
            "kMode_MR8", "kMode_MR1I", "kMode_MR2I", "kMode_MR4I",
            "kMode_MR8I"}

ModeHasIndex(mode) ==
  mode \in {"kMode_MR1", "kMode_MR2", "kMode_MR4", "kMode_MR8", "kMode_MR1I",
            "kMode_MR2I", "kMode_MR4I", "kMode_MR8I", "kMode_M1", "kMode_M2",
            "kMode_M4", "kMode_M8", "kMode_M1I", "kMode_M2I", "kMode_M4I",
            "kMode_M8I", "kMode_MCR", "kMode_MCRI"}

ModeHasDisplacement(mode) ==
  mode \in {"kMode_MRI", "kMode_MR1I", "kMode_MR2I", "kMode_MR4I",
            "kMode_MR8I", "kMode_M1I", "kMode_M2I", "kMode_M4I", "kMode_M8I",
            "kMode_Root", "kMode_MCRI"}

Count(b) == IF b THEN 1 ELSE 0

ModeInputs(mode) ==
  Count(ModeHasBase(mode)) + Count(ModeHasIndex(mode))
    + Count(ModeHasDisplacement(mode))

RegisterInput(c) == [k |-> "register", i |-> c]
ImmediateInput(v) == [k |-> "immediate", i |-> v]

\* the inputs the instruction selector gives an instruction of a mode, after
\* first_input inputs that are not part of the memory operand
InputsFor(mode, first_input, base, index, disp) ==
  [j \in 1 .. first_input |-> RegisterInput(0)]
    \o (IF ModeHasBase(mode) THEN <<RegisterInput(base)>> ELSE <<>>)
    \o (IF ModeHasIndex(mode) THEN <<RegisterInput(index)>> ELSE <<>>)
    \o (IF ModeHasDisplacement(mode) THEN <<ImmediateInput(disp)>> ELSE <<>>)
    \o <<RegisterInput(0)>>

OperandStart(mode, first_input, base, index, disp) ==
  /\ cg_instr = [op |-> "memory", mode |-> mode, first_input |-> first_input,
                 inputs |-> InputsFor(mode, first_input, base, index, disp)]
  /\ cg_result = [op |-> "none"]
  /\ cg_pc = "operand"

\* i.MemoryOperand(&index) is evaluated for the instruction
ResolveMemoryOperand ==
  /\ cg_pc = "operand"
  /\ cg_instr.op = "memory"
  /\ cg_result' = MemoryOperand(cg_instr, cg_instr.first_input)
  /\ cg_pc' = "resolved"
  /\ UNCHANGED <<sp_delta, frame_access, caller_registers_saved_, fp_mode_,
                 temp_slots_, move_cycle_, scratch_regs, stack_slot_delta,
                 cg_instr>>
  /\ UNCHANGED frame_vars
  /\ UNCHANGED other_than_cg

OperandInit ==
  /\ CgQuiet
  /\ FrameIdle
  /\ PmrIdle
  /\ DcIdle
  /\ TrampIdle
  /\ DeoptIdle
  /\ \E j \in 1 .. Len(AddressingModes), first_input \in 0 .. 1,
        base \in RegCodes, index \in RegCodes, disp \in {0, 8} :
       OperandStart(AddressingModes[j], first_input, base, index, disp)

OperandNext == ResolveMemoryOperand

SpecOperand == OperandInit /\ [][OperandNext]_vars

\* C17: MemoryOperand advances the cursor by the number of inputs the mode
\* reads, one for each of base register, index register and displacement it
\* has and between 1 and 3 in all, and leaves the instruction as it was;
\* kMode_M2 and kMode_None are fatal.
C17_CursorAdvance ==
  [][(cg_pc = "operand" /\ cg_pc' = "resolved")
       => /\ cg_instr' = cg_instr
          /\ IF cg_instr.mode \in {"kMode_M2", "kMode_None"}
             THEN cg_result'.fatal
             ELSE /\ ~cg_result'.fatal
                  /\ cg_result'.offset
                       = cg_instr.first_input + ModeInputs(cg_instr.mode)
                  /\ ModeInputs(cg_instr.mode) \in 1 .. 3]_vars

C17_Witness ==
  /\ cg_pc = "resolved"
  /\ cg_instr.op = "memory"
  /\ cg_instr.mode = "kMode_MR4I"
  /\ cg_instr.first_input = 1
  /\ cg_result.offset = 4
  /\ cg_result.scale = 2

\* ------------------------------------------------------- fan-out move sets
\* The recorded move set is exactly {A -> B, A -> C}: two recordings, one
\* source location, two distinct targets, neither of them the source.
FanOut(A, B, C) ==
  /\ recorded = {[src |-> A, tgt |-> B], [src |-> A, tgt |-> C]}
  /\ num_recorded = 2
  /\ B # C /\ B # A /\ C # A

FanOutLocations == kAllocatableRegistersT \cup AllSlots

\* positions of the emitted moves that read location A
MovesFrom(A) == {j \in 1 .. Len(code) : code[j].op = "mov" /\ code[j].src = A}

WritesScratch ==
  \E j \in 1 .. Len(code) : WritesRegister(code[j]) /\ code[j].dst = kScratchRegT

\* the code is two moves from A, one to each target, and no scratch write
TwoMovesFrom(A, B, C) ==
  /\ Len(code) = 2
  /\ Cardinality(MovesFrom(A)) = 2
  /\ {code[j].dst : j \in 1 .. Len(code)} = {B, C}
  /\ ~WritesScratch

\* the code loads A once into r and writes the other targets from r
LoadedOnceInto(r, A, B, C) ==
  /\ Len(code) = 1 + Cardinality({B, C} \ {r})
  /\ code[1] = Mov(r, A)
  /\ MovesFrom(A) = {1}
  /\ \A j \in 2 .. Len(code) : code[j].op = "mov" /\ code[j].src = r
  /\ {code[j].dst : j \in 2 .. Len(code)} = {B, C} \ {r}

DistinctMoves == {m \in recorded : m.src # m.tgt}

Targeted(l) == \E d \in DistinctMoves : d.tgt = l

\* a step of RecordMove
RecordStep == pmr_pc = "record" /\ num_recorded' = num_recorded + 1

\* two recorded moves between distinct locations, or materialisations, have
\* the same target
DoublyTargeted ==
  \E m \in DistinctMoves, n \in DistinctMoves : m # n /\ m.tgt = n.tgt

\* C19 as stated: once a location is the target of two recorded moves or
\* materialisations the compilation has stopped with a fatal error, and no
\* code is emitted for the move set.
C19_DoubleTargetIsFatal ==
  DoublyTargeted => (fatal /\ pmr_pc = "record" /\ code = <<>>)

\* What a recording does in a build with DEBUG: a move that is new to the set
\* is fatal exactly when its target is already that of a recorded move
\* between distinct locations or of a materialisation; a move recorded again
\* passes only if it is a move of an untargeted location to itself.
DebugRecordStep ==
  (debug_build /\ RecordStep) =>
     LET new == recorded' \ recorded
     IN IF new # {}
        THEN \A n \in new : fatal' <=> Targeted(n.tgt)
        ELSE fatal' \/ \E m \in recorded : m.src = m.tgt /\ ~Targeted(m.tgt)

\* C19 amended: in a build with DEBUG, recording a move whose target is
\* already the target of a recorded move between distinct locations or of a
\* materialisation is fatal, and after a fatal error no code is emitted; a
\* build without DEBUG never raises the error.
C19_DebugBuildRejectsDoubleTarget ==
  /\ [](fatal => (debug_build /\ ~indegree_ok /\ pmr_pc = "record" /\ code = <<>>))
  /\ [][DebugRecordStep]_vars

\* a build with DEBUG stopped at the recording of a second move to a target
C19_Witness ==
  /\ debug_build /\ fatal
  /\ DoublyTargeted
  /\ \E m \in DistinctMoves : IsConstant(m.src)

\* ------------------------------- temporary location of the gap resolver (x64)
TempRepresentations == {"kWord64", "kFloat64", "kSimd128"}

IsFloatingPoint(rep) == rep \in {"kFloat64", "kSimd128"}

ElementSizeInPointers(rep) == IF rep = "kSimd128" THEN 2 ELSE 1

AllocatedOperand(kind, rep, index) == [kind |-> kind, rep |-> rep, index |-> index]

\* a constant and its relocation mode
RelocatedConstant(type, rmode) ==
  [kind |-> "CONSTANT", type |-> type, rmode |-> rmode]

ConstantOperand(type) == RelocatedConstant(type, "NO_INFO")

\* RelocInfo::IsWasmReference
IsWasmReference(rmode) == rmode \in {"WASM_CALL", "WASM_STUB_CALL"}

\* the word a constant stands for
ConstantWord(constant) ==
  IF constant.type \in {"kInt32", "kInt64"} THEN 41 ELSE 42

IsRegister(op) == op.kind = "REGISTER" /\ ~IsFloatingPoint(op.rep)
IsFPRegister(op) == op.kind = "REGISTER" /\ IsFloatingPoint(op.rep)
IsStackSlot(op) == op.kind = "STACK_SLOT" /\ ~IsFloatingPoint(op.rep)
IsDoubleStackSlot(op) == op.kind = "STACK_SLOT" /\ op.rep = "kFloat64"
IsFPStackSlot(op) == op.kind = "STACK_SLOT" /\ IsFloatingPoint(op.rep)

\* the codes of kScratchRegister (r10) and kScratchDoubleReg (xmm15)
ScratchCodes == [gp |-> 10, fp |-> 15]

MoveCycleState ==
  [pending_scratch_register_use |-> FALSE,
   pending_double_scratch_register_use |-> FALSE]

\* The code generator while the moves of one gap are assembled, and the
\* machine the emitted instructions have run on so far.
GapState(m, delta, access, slots, cycle, scratch) ==
  [m |-> m, sp_delta |-> delta, frame_access |-> access, temp_slots_ |-> slots,
   move_cycle_ |-> cycle, scratch |-> scratch]

\* FrameAccessState::FrameSlotToFPOffset, in slots
FrameSlotToFPOffset(slot) == kFixedSlotCountAboveFp - 1 - slot

\* X64OperandConverter::SlotToOperand: the address Operand(rsp or rbp, offset)
\* names when the instruction runs
SlotToOperand(st, f, slot_index) ==
  IF st.frame_access = "sp"
  THEN st.m.rsp + FrameSlotToFPOffset(slot_index)
         + GetSPToFPSlotCount(f, st.sp_delta)
  ELSE st.m.rbp + FrameSlotToFPOffset(slot_index)

ToRegister(st, op) ==
  IF op.index = ScratchCodes.gp THEN st.scratch.gp ELSE st.m.gp[op.index]

ToDoubleRegister(st, op) ==
  IF op.index = ScratchCodes.fp THEN st.scratch.fp ELSE st.m.xmm[op.index]

SetRegister(st, c, v) ==
  IF c = ScratchCodes.gp THEN [st EXCEPT !.scratch.gp = v]
  ELSE [st EXCEPT !.m.gp[c] = v]

SetDoubleRegister(st, c, v) ==
  IF c = ScratchCodes.fp THEN [st EXCEPT !.scratch.fp = v]
  ELSE [st EXCEPT !.m.xmm[c] = v]

\* a store of the words ws at address a and above
StoreWords(st, a, ws) ==
  [st EXCEPT !.m.mem =
     [x \in StackAddrs |->
        IF x >= a /\ x < a + Len(ws) THEN ws[x - a + 1] ELSE st.m.mem[x]]]

IncreaseSPDelta(st, amount) == [st EXCEPT !.sp_delta = @ + amount]

\* CodeGenerator::AssembleMove. MoveConstantToRegister writes the register
\* it is given; MoveConstantToSlot stores an int32 or int64 constant that is
\* no wasm reference directly and every other constant through
\* kScratchRegister.
AssembleMove(st, f, source, destination) ==
  LET src == SlotToOperand(st, f, source.index)
      dst == SlotToOperand(st, f, destination.index)
      simd == source.rep = "kSimd128"
  IN CASE source.kind = "CONSTANT" /\ destination.kind = "REGISTER" ->
            IF IsRegister(destination)
            THEN SetRegister(st, destination.index, ConstantWord(source))
            ELSE SetDoubleRegister(st, destination.index,
                                   <<ConstantWord(source), 0>>)
       [] source.kind = "CONSTANT" /\ destination.kind = "STACK_SLOT" ->
            IF IsStackSlot(destination)
            THEN IF ~IsWasmReference(source.rmode)
                    /\ source.type \in {"kInt32", "kInt64"}
                 THEN StoreWords(st, dst, <<ConstantWord(source)>>)
                 ELSE StoreWords(SetRegister(st, ScratchCodes.gp,
                                             ConstantWord(source)),
                                 dst, <<ConstantWord(source)>>)
            ELSE StoreWords(st, dst, <<ConstantWord(source)>>)
       [] source.kind = "REGISTER" /\ destination.kind = "REGISTER" ->
            IF IsRegister(source)
            THEN SetRegister(st, destination.index, ToRegister(st, source))
            ELSE SetDoubleRegister(st, destination.index,
                                   ToDoubleRegister(st, source))
       [] source.kind = "REGISTER" /\ destination.kind = "STACK_SLOT" ->
            IF IsRegister(source)
            THEN StoreWords(st, dst, <<ToRegister(st, source)>>)
            ELSE IF ~simd
                 THEN StoreWords(st, dst, <<ToDoubleRegister(st, source)[1]>>)
                 ELSE StoreWords(st, dst, ToDoubleRegister(st, source))
       [] source.kind = "STACK_SLOT" /\ destination.kind = "REGISTER" ->
            IF IsStackSlot(source)
            THEN SetRegister(st, destination.index, st.m.mem[src])
            ELSE IF ~simd
                 THEN SetDoubleRegister(st, destination.index,
                                        <<st.m.mem[src], 0>>)
                 ELSE SetDoubleRegister(st, destination.index,
                                        <<st.m.mem[src], st.m.mem[src + 1]>>)
       [] source.kind = "STACK_SLOT" /\ destination.kind = "STACK_SLOT" ->
            IF IsStackSlot(source)
            THEN StoreWords(SetRegister(st, ScratchCodes.gp, st.m.mem[src]),
                            dst, <<st.m.mem[src]>>)
            ELSE IF ~simd
                 THEN StoreWords(SetDoubleRegister(st, ScratchCodes.fp,
                                                   <<st.m.mem[src], 0>>),
                                 dst, <<st.m.mem[src]>>)
                 ELSE StoreWords(SetDoubleRegister(st, ScratchCodes.fp,
                                    <<st.m.mem[src], st.m.mem[src + 1]>>),
                                 dst, <<st.m.mem[src], st.m.mem[src + 1]>>)

\* CodeGenerator::Push
Push(st, f, source) ==
  LET rep == source.rep
      new_slots == ElementSizeInPointers(rep)
      last_frame_slot_id == GetTotalFrameSlotCount(f) - 1
      slot_id == last_frame_slot_id + st.sp_delta + new_slots
      stack_slot == AllocatedOperand("STACK_SLOT", rep, slot_id)
      pushed ==
        IF IsRegister(source)
        THEN IncreaseSPDelta(
               [st EXCEPT !.m = pushq(@, ToRegister(st, source))], new_slots)
        ELSE IF source.kind = "STACK_SLOT" /\ rep # "kSimd128"
        THEN IncreaseSPDelta(
               [st EXCEPT !.m = pushq(@, st.m.mem[SlotToOperand(st, f, source.index)])],
               new_slots)
        ELSE AssembleMove(
               IncreaseSPDelta([st EXCEPT !.m = AllocateStackSpace(@, new_slots)],
                               new_slots),
               f, source, stack_slot)
  IN [pushed EXCEPT !.temp_slots_ = @ + new_slots]

\* CodeGenerator::Pop. popq with a memory destination addresses it with the
\* stack pointer it leaves behind.
Pop(st, f, dest, rep) ==
  LET new_slots == ElementSizeInPointers(rep)
      top == st.m.mem[st.m.rsp]
      st1 == IncreaseSPDelta(st, 0 - new_slots)
      popped ==
        IF IsRegister(dest)
        THEN SetRegister([st1 EXCEPT !.m.rsp = @ + 1], dest.index, top)
        ELSE IF dest.kind = "STACK_SLOT" /\ dest.rep # "kSimd128"
        THEN LET st2 == [st1 EXCEPT !.m.rsp = @ + 1]
             IN StoreWords(st2, SlotToOperand(st2, f, dest.index), <<top>>)
        ELSE LET last_frame_slot_id == GetTotalFrameSlotCount(f) - 1
                 slot_id == last_frame_slot_id + st1.sp_delta + new_slots
                 stack_slot == AllocatedOperand("STACK_SLOT", rep, slot_id)
                 moved == AssembleMove(st1, f, stack_slot, dest)
             IN [moved EXCEPT !.m = addq_rsp(@, new_slots)]
  IN [popped EXCEPT !.temp_slots_ = @ - new_slots]

\* the scratch register for this rep is available
ScratchAvailable(cycle, rep) ==
  \/ IsFloatingPoint(rep) /\ ~cycle.pending_double_scratch_register_use
  \/ ~IsFloatingPoint(rep) /\ ~cycle.pending_scratch_register_use

ScratchOperand(rep) ==
  AllocatedOperand("REGISTER", rep,
                   IF ~IsFloatingPoint(rep) THEN ScratchCodes.gp
                   ELSE ScratchCodes.fp)

\* CodeGenerator::MoveToTempLocation
MoveToTempLocation(st, f, source) ==
  IF ScratchAvailable(st.move_cycle_, source.rep)
  THEN AssembleMove(st, f, source, ScratchOperand(source.rep))
  ELSE Push(st, f, source)

\* CodeGenerator::MoveTempLocationTo
MoveTempLocationTo(st, f, dest, rep) ==
  LET moved == IF ScratchAvailable(st.move_cycle_, rep)
               THEN AssembleMove(st, f, ScratchOperand(rep), dest)
               ELSE Pop(st, f, dest, rep)
  IN [moved EXCEPT !.move_cycle_ = MoveCycleState]

\* Constants that MoveConstantToSlot writes through kScratchRegister
NeedsScratch(constant) ==
  \/ IsWasmReference(constant.rmode)
  \/ constant.type \notin {"kInt32", "kInt64"}

\* A variant of SetPendingMove that announces kScratchRegister for every
\* move between stack slots.
SetPendingMove_IntegerOnly(cycle, source, destination) ==
  IF source.kind = "CONSTANT" /\ destination.kind = "STACK_SLOT"
  THEN IF IsStackSlot(destination) /\ NeedsScratch(source)
       THEN [cycle EXCEPT !.pending_scratch_register_use = TRUE]
       ELSE cycle
  ELSE IF source.kind = "STACK_SLOT" /\ destination.kind = "STACK_SLOT"
  THEN [cycle EXCEPT !.pending_scratch_register_use = TRUE]
  ELSE cycle

\* CodeGenerator::SetPendingMove
SetPendingMove(cycle, source, destination) ==
  IF source.kind = "CONSTANT" /\ destination.kind = "STACK_SLOT"
  THEN IF IsStackSlot(destination) /\ NeedsScratch(source)
       THEN [cycle EXCEPT !.pending_scratch_register_use = TRUE]
       ELSE cycle
  ELSE IF source.kind = "STACK_SLOT" /\ destination.kind = "STACK_SLOT"
  THEN IF IsFloatingPoint(source.rep)
       THEN [cycle EXCEPT !.pending_double_scratch_register_use = TRUE]
       ELSE [cycle EXCEPT !.pending_scratch_register_use = TRUE]
  ELSE cycle

\* ------------------------------------------ the gap resolver resolves a cycle
MaxGapMoves == 1

\* the spill slots of the frame
SpillSlotIds(f) ==
  LET first == kFixedSlotCountAboveFp + FixedSlotsPushed(f.kind)
  IN first .. (first + f.spill - 1)

\* the allocated operands of a function with frame f; a 128-bit slot takes
\* two spill slots and is named by the higher index
GapOperands(f) ==
  {AllocatedOperand("REGISTER", "kWord64", c) : c \in CalleeSavedCodes}
    \cup {AllocatedOperand("REGISTER", rep, c) :
            rep \in {"kFloat64", "kSimd128"}, c \in CalleeSavedFPCodes}
    \cup {AllocatedOperand("STACK_SLOT", rep, s) :
            rep \in {"kWord64", "kFloat64"}, s \in SpillSlotIds(f)}
    \cup {AllocatedOperand("STACK_SLOT", "kSimd128", s) :
            s \in {x \in SpillSlotIds(f) : x - 1 \in SpillSlotIds(f)}}

GapConstants == {ConstantOperand("kInt32"), ConstantOperand("kHeapObject")}

\* the words an operand holds
OperandValue(st, f, op) ==
  IF op.kind = "REGISTER"
  THEN IF IsRegister(op) THEN <<ToRegister(st, op)>>
       ELSE IF op.rep = "kSimd128" THEN ToDoubleRegister(st, op)
       ELSE <<ToDoubleRegister(st, op)[1]>>
  ELSE LET a == SlotToOperand(st, f, op.index)
       IN IF op.rep = "kSimd128" THEN <<st.m.mem[a], st.m.mem[a + 1]>>
          ELSE <<st.m.mem[a]>>

CurrentGapState ==
  GapState(CurrentMachine, sp_delta, frame_access, temp_slots_, move_cycle_,
           scratch_regs)

SetGapState(st) ==
  /\ SetMachine(st.m)
  /\ sp_delta' = st.sp_delta
  /\ temp_slots_' = st.temp_slots_
  /\ move_cycle_' = st.move_cycle_
  /\ scratch_regs' = st.scratch

\* the moves of a gap are being assembled
InGap == frame_pc = "constructed" /\ cg_pc \in {"block", "prepared"}

NoOperand == [kind |-> "INVALID"]

\* GapResolver::PerformCycle: SetPendingMove for a move of the cycle
GapSetPendingMove ==
  /\ InGap
  /\ cg_result.op = "none"
  /\ \E source \in GapOperands(frame) \cup GapConstants,
        destination \in GapOperands(frame) :
        /\ source # destination
        /\ source.kind # "CONSTANT" => source.rep = destination.rep
        /\ move_cycle_' = SetPendingMove(move_cycle_, source, destination)
  /\ UNCHANGED frame_vars
  /\ UNCHANGED <<sp_delta, frame_access, caller_registers_saved_, fp_mode_,
                 temp_slots_, scratch_regs, stack_slot_delta, cg_instr,
                 cg_result, cg_pc>>
  /\ UNCHANGED other_than_cg

\* GapResolver::PerformCycle: MoveToTempLocation(source of the last move)
GapMoveToTempLocation ==
  /\ InGap
  /\ cg_result.op = "none"
  /\ \E source \in GapOperands(frame) :
       /\ SetGapState(MoveToTempLocation(CurrentGapState, frame, source))
       /\ cg_result' =
            [op |-> "temp", rep |-> source.rep, dest |-> NoOperand,
             saved |-> OperandValue(CurrentGapState, frame, source),
             before |-> CurrentGapState]
  /\ UNCHANGED <<frame, frame_pc>>
  /\ UNCHANGED <<frame_access, caller_registers_saved_, fp_mode_,
                 stack_slot_delta, cg_instr, cg_pc>>
  /\ UNCHANGED other_than_cg

\* AssembleMove for a move of the gap; between MoveToTempLocation and
\* MoveTempLocationTo a stack-to-stack move is one SetPendingMove announced
GapAssembleMove ==
  /\ InGap
  /\ cg_result.op \in {"none", "temp"}
  /\ cg_instr.assembled < MaxGapMoves
  /\ \E source \in GapOperands(frame), destination \in GapOperands(frame) :
       /\ source # destination
       /\ source.rep = destination.rep
       /\ (cg_result.op = "temp" /\ source.kind = "STACK_SLOT"
             /\ destination.kind = "STACK_SLOT")
            => ~ScratchAvailable(move_cycle_, source.rep)
       /\ SetGapState(AssembleMove(CurrentGapState, frame, source, destination))
  /\ cg_instr' = [cg_instr EXCEPT !.assembled = @ + 1]
  /\ UNCHANGED <<frame, frame_pc>>
  /\ UNCHANGED <<frame_access, caller_registers_saved_, fp_mode_,
                 stack_slot_delta, cg_result, cg_pc>>
  /\ UNCHANGED other_than_cg

\* GapResolver::PerformCycle: MoveTempLocationTo(destination of the last move)
GapMoveTempLocationTo ==
  /\ InGap
  /\ cg_result.op = "temp"
  /\ \E dest \in GapOperands(frame) :
       /\ dest.rep = cg_result.rep
       /\ SetGapState(MoveTempLocationTo(CurrentGapState, frame, dest,
                                         cg_result.rep))
       /\ cg_result' = [cg_result EXCEPT !.op = "done", !.dest = dest]
  /\ UNCHANGED <<frame, frame_pc>>
  /\ UNCHANGED <<frame_access, caller_registers_saved_, fp_mode_,
                 stack_slot_delta, cg_instr, cg_pc>>
  /\ UNCHANGED other_than_cg

\* kArchPrepareTailCall ahead of the gap of the tail call
GapAfterPrepareTailCall == cg_result.op = "none" /\ ArchPrepareTailCall

\* functions with a frame and spill slots
GapFrames ==
  {f \in FrameDescriptors :
     /\ f.has_frame
     /\ f.kind \in {"JS", "C"}
     /\ f.saves = {}
     /\ f.saves_fp = {}
     /\ f.returns = 0
     /\ f.spill = MaxSpillSlots}

GapInit ==
  /\ \E f \in GapFrames : FrameStart(f)
  /\ sp_delta = 0
  /\ frame_access = "fp"
  /\ caller_registers_saved_ = FALSE
  /\ fp_mode_ = "kIgnore"
  /\ temp_slots_ = 0
  /\ move_cycle_ = MoveCycleState
  /\ scratch_regs = [gp |-> 90, fp |-> <<91, 92>>]
  /\ stack_slot_delta = 0
  /\ cg_instr = [op |-> "gap", assembled |-> 0]
  /\ cg_result = [op |-> "none"]
  /\ cg_pc = "block"
  /\ PmrIdle
  /\ DcIdle
  /\ TrampIdle
  /\ DeoptIdle

GapNext ==
  \/ AssembleConstructFrame
  \/ GapAfterPrepareTailCall
  \/ GapSetPendingMove
  \/ GapAssembleMove
  \/ GapMoveToTempLocation
  \/ GapMoveTempLocationTo

SpecGap == GapInit /\ [][GapNext]_vars

\* MoveToTempLocation pushed the value and MoveTempLocationTo has run
PushedPairDone ==
  /\ cg_result.op = "done"
  /\ ~ScratchAvailable(cg_result.before.move_cycle_, cg_result.rep)

\* C20: after MoveToTempLocation with the scratch register of the value's
\* class pending (the value is pushed on the native stack) and the matching
\* MoveTempLocationTo (the value is popped into the destination), the
\* destination holds the saved value, and the tracked SP delta and the
\* temp-slot count are what they were before the pair.
C20_PushPopRoundTrip ==
  PushedPairDone =>
     /\ OperandValue(CurrentGapState, frame, cg_result.dest) = cg_result.saved
     /\ sp_delta = cg_result.before.sp_delta
     /\ temp_slots_ = cg_result.before.temp_slots_

\* --------------------------------------- AssembleReturn: popping the arguments
\* Ret(bytes_dropped, scratch): the return address is popped and the stack
\* pointer is raised past the dropped slots; to is where execution continues
Ret(m, slots) ==
  [m |-> [m EXCEPT !.rsp = @ + 1 + slots], to |-> m.mem[m.rsp]]

\* PopReturnAddressTo(scratch); leaq(rsp, [rsp + count * 8]);
\* PushReturnAddressFrom(scratch)
DropSlotsBelowReturnAddress(m, count) ==
  LET scratch == m.mem[m.rsp]
      sp == m.rsp + 1 + count - 1
  IN [m EXCEPT !.rsp = sp, !.mem[sp] = scratch]

\* DropArguments(argc, scratch, kCountIsInteger, kCountIncludesReceiver)
DropArguments(m, argc) == DropSlotsBelowReturnAddress(m, argc)

\* the address of the actual argument count in a JS frame
ArgCAddress(m) == m.rbp - FixedSlotsPushed("JS")

\* A variant whose dynamic pop takes the count to leave the receiver out and
\* adds one slot for it.
ReturnSequence_ReceiverAdded(m, f, parameter_slots, additional_pop_count) ==
  LET m1 == IF f.saves # {}
            THEN PopSaves([m EXCEPT !.rsp = @ + f.returns],
                          Ascending(f.saves), 1)
            ELSE m
      fps == Ascending(f.saves_fp)
      m2 == IF f.saves_fp # {}
            THEN [RestoreFP(m1, fps, 1) EXCEPT !.rsp = @ + Len(fps) * QuadWordSlots]
            ELSE m1
      drop_jsargs == parameter_slots # 0 /\ f.has_frame /\ f.kind = "JS"
      argc_reg == m2.mem[ArgCAddress(m2)]
      m3 == IF f.kind = "C" \/ f.has_frame THEN DeconstructFrame(m2) ELSE m2
  IN IF drop_jsargs
     THEN IF argc_reg > parameter_slots
          THEN [ret |-> Ret(DropArguments(m3, argc_reg + 1), 0), static_pop |-> FALSE]
          ELSE [ret |-> Ret(m3, parameter_slots), static_pop |-> TRUE]
     ELSE IF additional_pop_count.imm
     THEN [ret |-> Ret(m3, parameter_slots + additional_pop_count.v),
           static_pop |-> TRUE]
     ELSE [ret |-> Ret(DropSlotsBelowReturnAddress(
                         m3, additional_pop_count.v + parameter_slots), 0),
           static_pop |-> FALSE]

\* CodeGenerator::AssembleReturn(additional_pop_count): the emitted code runs
ReturnSequence(m, f, parameter_slots, additional_pop_count) ==
  LET m1 == RestoreRegisters(m, f)
      drop_jsargs == parameter_slots # 0 /\ f.has_frame /\ f.kind = "JS"
      \* movq(argc_reg, Operand(rbp, kArgCOffset))
      argc_reg == m1.mem[ArgCAddress(m1)]
      m2 == IF f.kind = "C" \/ f.has_frame THEN DeconstructFrame(m1) ELSE m1
  IN IF drop_jsargs
     THEN IF argc_reg > parameter_slots
          THEN [ret |-> Ret(DropArguments(m2, argc_reg), 0), static_pop |-> FALSE]
          ELSE [ret |-> Ret(m2, parameter_slots), static_pop |-> TRUE]
     ELSE IF additional_pop_count.imm
     THEN [ret |-> Ret(m2, parameter_slots + additional_pop_count.v),
           static_pop |-> TRUE]
     ELSE [ret |-> Ret(DropSlotsBelowReturnAddress(
                         m2, additional_pop_count.v + parameter_slots), 0),
           static_pop |-> FALSE]

Larger(a, b) == IF a >= b THEN a ELSE b

\* the stack pointer at the entry of a callee whose caller pushed the slots
\* of the larger of the actual and the declared argument count, below one
\* word of its own
CalleeEntryRsp(argc, parameter_slots) ==
  EntryRsp - 1 - Larger(argc, parameter_slots)

ReturnAddressWord == 55

\* the additional pop counts of a Return node: an immediate, or a register
\* holding the count; it is zero when the function declares parameter slots
AdditionalPopCounts(parameter_slots) ==
  {[imm |-> i, v |-> v] :
     i \in BOOLEAN, v \in IF parameter_slots # 0 THEN {0} ELSE {0, 1}}

\* the call: the caller has pushed the arguments and the return address
ReturnStart(f, argc, parameter_slots, additional_pop_count) ==
  /\ frame = f
  /\ frame_pc = "entry"
  /\ rsp = CalleeEntryRsp(argc, parameter_slots + additional_pop_count.v)
  /\ rbp = EntryRbp
  /\ gp_regs = EntryGp
  /\ xmm_regs = EntryXmm
  /\ stack_mem = [a \in StackAddrs |->
                    IF a = rsp THEN ReturnAddressWord
                    ELSE IF a > rsp THEN 7 ELSE 0]
  /\ cg_instr = [op |-> "return", argc |-> argc,
                 parameter_slots |-> parameter_slots,
                 additional_pop_count |-> additional_pop_count]

\* The prologue and AssembleConstructFrame run; the prologue of a JS function
\* pushes the actual argument count as the last fixed slot.
ConstructFrameWithArgc ==
  /\ frame_pc = "entry"
  /\ cg_instr.op = "return"
  /\ LET m == ConstructFrame(CurrentMachine, frame)
     IN SetMachine(IF frame.has_frame /\ frame.kind = "JS"
                   THEN [m EXCEPT !.mem[ArgCAddress(m)] = cg_instr.argc]
                   ELSE m)
  /\ frame_pc' = "constructed"
  /\ UNCHANGED frame
  /\ UNCHANGED other_than_frame

\* AssembleReturn: the whole return sequence runs
AssembleReturnAndPop ==
  /\ frame_pc = "constructed"
  /\ cg_instr.op = "return"
  /\ LET r == ReturnSequence(CurrentMachine, frame, cg_instr.parameter_slots,
                             cg_instr.additional_pop_count)
     IN /\ SetMachine(r.ret.m)
        /\ cg_result' = [op |-> "ret", to |-> r.ret.to,
                         static_pop |-> r.static_pop]
  /\ frame_pc' = "returned"
  /\ UNCHANGED frame
  /\ UNCHANGED <<sp_delta, frame_access, caller_registers_saved_, fp_mode_,
                 temp_slots_, move_cycle_, scratch_regs, stack_slot_delta,
                 cg_instr, cg_pc>>
  /\ UNCHANGED other_than_cg

ReturnInit ==
  /\ \E f \in FrameDescriptors, argc \in 1 .. MaxArgc,
        parameter_slots \in 0 .. MaxParameterSlots :
        \E additional_pop_count \in AdditionalPopCounts(parameter_slots) :
           ReturnStart(f, argc, parameter_slots, additional_pop_count)
  /\ sp_delta = 0
  /\ frame_access = "fp"
  /\ caller_registers_saved_ = FALSE
  /\ fp_mode_ = "kIgnore"
  /\ temp_slots_ = 0
  /\ move_cycle_ = MoveCycleState
  /\ scratch_regs = [gp |-> 0, fp |-> 0]
  /\ stack_slot_delta = 0
  /\ cg_result = [op |-> "none"]
  /\ cg_pc = "idle"
  /\ PmrIdle
  /\ DcIdle
  /\ TrampIdle
  /\ DeoptIdle

ReturnNext == ConstructFrameWithArgc \/ AssembleReturnAndPop

SpecReturn == ReturnInit /\ [][ReturnNext]_vars

\* a JS function with a frame and declared parameter slots has returned
JSReturned ==
  /\ frame_pc = "returned"
  /\ cg_result.op = "ret"
  /\ frame.kind = "JS" /\ frame.has_frame
  /\ cg_instr.parameter_slots # 0

\* slots popped above the return address
SlotsPopped ==
  rsp - 1 - CalleeEntryRsp(cg_instr.argc,
                           cg_instr.parameter_slots
                             + cg_instr.additional_pop_count.v)

IsMaterialisation(j) == code[j].op = "load"

\* instruction j stores the scratch register a materialisation just loaded
IsMaterialisedStore(j) ==
  /\ j > 1
  /\ code[j].op = "mov" /\ code[j].src = kScratchRegT
  /\ code[j - 1].op = "load" /\ code[j - 1].dst = kScratchRegT

\* instruction j belongs to a move between locations
IsLocationMove(j) == ~IsMaterialisation(j) /\ ~IsMaterialisedStore(j)

MaterialisingMoves == {m \in recorded : IsConstant(m.src)}

kLoopUnrollSize == 8

UninitialisedWord == 0 - 1

PrologueAddrs == (0 - MaxTaggedSlots - MaxUntaggedSlots) .. (0 - 1)

MoveImm(dst, imm) == [op |-> "Move", dst |-> dst, imm |-> imm]
PushRax == [op |-> "pushq", dst |-> "rsp", imm |-> 0]
Decl(dst) == [op |-> "decl", dst |-> dst, imm |-> 0]
JGreater(label) == [op |-> "j_greater", dst |-> "rip", imm |-> label]
SubqRsp(imm) == [op |-> "subq", dst |-> "rsp", imm |-> imm]

\* for (int i = 0; i < count; ++i) pushq(rax);
UnrolledPushes(count) == [i \in 1 .. count |-> PushRax]

\* A variant of the prologue that enters the loop without the pushes that
\* round the slot count to the unroll size.
Prologue_NoFirstSlots(graph) ==
  LET tagged_slots == graph.tagged_stack_slots
      fill ==
        IF tagged_slots < 2 * kLoopUnrollSize
        THEN UnrolledPushes(tagged_slots)
        ELSE <<MoveImm("rbx", tagged_slots \div kLoopUnrollSize)>>
               \o UnrolledPushes(kLoopUnrollSize)
               \o <<Decl("rbx"), JGreater(3)>>
  IN (IF tagged_slots > 0 THEN <<MoveImm("rax", 0)>> \o fill ELSE <<>>)
       \o (IF graph.untagged_stack_slots > 0
           THEN <<SubqRsp(graph.untagged_stack_slots)>>
           ELSE <<>>)

\* The instructions Prologue emits from "Initialize stack slots" on. The
\* label of the loop is the position of its first instruction.
Prologue(graph) ==
  LET tagged_slots == graph.tagged_stack_slots
      first_slots == tagged_slots % kLoopUnrollSize
      loop == 1 + first_slots + 1 + 1
      fill ==
        IF tagged_slots < 2 * kLoopUnrollSize
        THEN UnrolledPushes(tagged_slots)
        ELSE UnrolledPushes(first_slots)
               \o <<MoveImm("rbx", tagged_slots \div kLoopUnrollSize)>>
               \o UnrolledPushes(kLoopUnrollSize)
               \o <<Decl("rbx"), JGreater(loop)>>
  IN (IF tagged_slots > 0 THEN <<MoveImm("rax", 0)>> \o fill ELSE <<>>)
       \o (IF graph.untagged_stack_slots > 0
           THEN <<SubqRsp(graph.untagged_stack_slots)>>
           ELSE <<>>)

\* the code generator emits the prologue of the graph
EmitPrologue ==
  /\ frame_pc = "entry"
  /\ masm_code' = Prologue(frame)
  /\ frame_pc' = "running"
  /\ UNCHANGED <<frame, rsp, rbp, gp_regs, xmm_regs, stack_mem>>
  /\ UNCHANGED <<compiler, deferred_code, deferred_infos, ools_, num_labels,
                 taken, taken_idx, dc_pc, num_nodes, generated,
                 drain_iterations>>
  /\ UNCHANGED <<pmr_vars, tramp_vars, deopt_vars, cg_vars>>

\* the machine runs the instruction at rip; "greater" is the signed condition
\* of the result of decl, whose operand is tagged_slots / 8 of an int and at
\* least 2, so the 32-bit decrement never wraps
RunPrologueInstruction ==
  /\ frame_pc = "running"
  /\ LET ins == IF gp_regs.rip <= Len(masm_code)
                THEN masm_code[gp_regs.rip]
                ELSE [op |-> "end", dst |-> "rip", imm |-> 0]
         next == gp_regs.rip + 1
     IN CASE ins.op = "Move" ->
               /\ gp_regs' = [gp_regs EXCEPT ![ins.dst] = ins.imm, !.rip = next]
               /\ UNCHANGED <<frame, frame_pc, rsp, stack_mem>>
          [] ins.op = "pushq" ->
               /\ rsp' = rsp - 1
               /\ stack_mem' = [stack_mem EXCEPT ![rsp - 1] = gp_regs.rax]
               /\ gp_regs' = [gp_regs EXCEPT !.rip = next]
               /\ frame' = [frame EXCEPT !.pushes = @ + 1]
               /\ UNCHANGED frame_pc
          [] ins.op = "decl" ->
               /\ gp_regs' = [gp_regs EXCEPT
                                ![ins.dst] = gp_regs[ins.dst] - 1,
                                !.greater = gp_regs[ins.dst] - 1 > 0,
                                !.rip = next]
               /\ frame' = [frame EXCEPT !.loop_iterations = @ + 1]
               /\ UNCHANGED <<frame_pc, rsp, stack_mem>>
          [] ins.op = "j_greater" ->
               /\ gp_regs' = [gp_regs EXCEPT
                                !.rip = IF gp_regs.greater THEN ins.imm ELSE next]
               /\ UNCHANGED <<frame, frame_pc, rsp, stack_mem>>
          [] ins.op = "subq" ->
               /\ rsp' = rsp - ins.imm
               /\ gp_regs' = [gp_regs EXCEPT !.rip = next]
               /\ UNCHANGED <<frame, frame_pc, stack_mem>>
          [] ins.op = "end" ->
               /\ frame_pc' = "body"
               /\ UNCHANGED <<frame, rsp, gp_regs, stack_mem>>
  /\ UNCHANGED <<rbp, xmm_regs>>
  /\ UNCHANGED <<pmr_vars, dc_vars, tramp_vars, deopt_vars, cg_vars>>

PrologueStart(tagged, untagged, argc, b) ==
  /\ frame = [tagged_stack_slots |-> tagged, untagged_stack_slots |-> untagged,
              pushes |-> 0, loop_iterations |-> 0]
  /\ frame_pc = "entry"
  /\ rsp = 0
  /\ rbp = EntryRbp
  /\ gp_regs = [rax |-> argc, rbx |-> b, rip |-> 1, greater |-> FALSE]
  /\ xmm_regs = EntryXmm
  /\ stack_mem = [a \in PrologueAddrs |-> UninitialisedWord]

PrologueInit ==
  /\ \E tagged \in 0 .. MaxTaggedSlots, untagged \in 0 .. MaxUntaggedSlots,
        argc \in 1 .. 2 :
        PrologueStart(tagged, untagged, argc, 0)
  /\ PmrIdle /\ DcIdle /\ TrampIdle /\ DeoptIdle /\ CgIdle

PrologueNext == EmitPrologue \/ RunPrologueInstruction

SpecPrologue == PrologueInit /\ [][PrologueNext]_vars

PushesIn(instrs) ==
  Cardinality({i \in 1 .. Len(instrs) : instrs[i].op = "pushq"})

\* the loop of eight pushes is part of the emitted code
HasPushLoop ==
  \E i \in 1 .. Len(masm_code) : masm_code[i].op = "j_greater"

\* the pushes emitted before the loop counter is loaded
PushesBeforeLoop ==
  LET i == CHOOSE i \in 1 .. Len(masm_code) :
              masm_code[i].op = "Move" /\ masm_code[i].dst = "rbx"
  IN PushesIn(SubSeq(masm_code, 1, i - 1))

\* C23: the prologue pushes exactly n zero words for n tagged slots, fully
\* unrolled when n < 16 and otherwise as n mod 8 pushes followed by
\* floor(n/8) iterations of a loop of 8 pushes; the stack is the same either
\* way, and the untagged slots are reserved afterwards and left unwritten.
C23_PrologueZeroFill ==
  LET n == frame.tagged_stack_slots
      u == frame.untagged_stack_slots
  IN /\ frame_pc = "running" =>
          /\ HasPushLoop <=> n >= 2 * kLoopUnrollSize
          /\ ~HasPushLoop => PushesIn(masm_code) = n
          /\ HasPushLoop =>
                /\ PushesBeforeLoop = n % kLoopUnrollSize
                /\ PushesIn(masm_code) = (n % kLoopUnrollSize) + kLoopUnrollSize
          /\ frame.pushes <= n
          /\ frame.pushes < n => rsp = 0 - frame.pushes
          /\ \A a \in PrologueAddrs :
                stack_mem[a] = IF a >= 0 - frame.pushes THEN 0
                               ELSE UninitialisedWord
     /\ frame_pc = "body" =>
          /\ frame.pushes = n
          /\ frame.loop_iterations =
                IF n < 2 * kLoopUnrollSize THEN 0 ELSE n \div kLoopUnrollSize
          /\ rsp = 0 - n - u
          /\ \A a \in PrologueAddrs :
                stack_mem[a] = IF a >= 0 - n THEN 0 ELSE UninitialisedWord

\* both strategies have run to the end: an unrolled fill and a loop with
\* leading pushes, each followed by the reservation of an untagged slot
C23_Witness ==
  /\ frame_pc = "body"
  /\ frame.untagged_stack_slots > 0
  /\ frame.tagged_stack_slots >= 2 * kLoopUnrollSize
  /\ frame.tagged_stack_slots % kLoopUnrollSize # 0
  /\ frame.loop_iterations > 2

\* ------------------------------------------------- EmitMoves called twice
\* EmitMoves() called on the resolver, for the first time as in EmitMoves or
\* again once the code of the first call has run: the function runs on the
\* fields the first call has left.
EmitMovesCall ==
  /\ IF pmr_pc = "record" THEN TRUE ELSE EmitMovesDone
  /\ ~fatal
  /\ \E order \in Orderings(DOMAIN moves_from_stack_slot_) :
       LET st == EmitMovesFrom(
                   ResolverState(moves_from_register_, moves_from_stack_slot_,
                                 scratch_has_cycle_start_, <<>>, dcheck_ok),
                   materializing_register_moves_,
                   materializing_stack_slot_moves_, order)
       IN /\ moves_from_register_' = st.mr
          /\ moves_from_stack_slot_' = st.ms
          /\ scratch_has_cycle_start_' = st.flag
          /\ dcheck_ok' = st.ok
          /\ code' = st.out
  /\ pmr_pc' = IF pmr_pc = "record" THEN "exec" ELSE "again"
  /\ ip' = 1
  /\ UNCHANGED <<materializing_register_moves_, materializing_stack_slot_moves_,
                 debug_build, fatal, recorded, num_recorded, indegree_ok, val,
                 nstack>>
  /\ UNCHANGED other_than_pmr

MovesTwiceNext == RecordMove \/ EmitMovesCall \/ RunCode

SpecMovesTwice == MovesInit /\ [][MovesTwiceNext]_vars

\* EmitMoves has returned, for the first or the second time
EmitMovesReturned == pmr_pc \in {"exec", "again"}

\* no outgoing edge of a register or a stack slot is left
NoEdgeLeft ==
  /\ \A c \in RegCodes : is_empty(moves_from_register_[c])
  /\ DOMAIN moves_from_stack_slot_ = {}

\* no materialising move is left
NoMaterialisationLeft ==
  /\ \A c \in RegCodes : materializing_register_moves_[c] = Nil
  /\ materializing_stack_slot_moves_ = <<>>

\* C24 as stated: when EmitMoves has returned no edge and no materialising
\* move is left and the scratch flag is false, and a second call emits no
\* code.
C24_MoveSetConsumed ==
  /\ EmitMovesReturned =>
       (NoEdgeLeft /\ NoMaterialisationLeft /\ ~scratch_has_cycle_start_)
  /\ pmr_pc = "again" => code = <<>>

\* C24 amended: when EmitMoves has returned no outgoing edge of a register or
\* stack slot is left and the scratch flag is false, while every
\* materialising move is still recorded; a second call emits the
\* materialisations again and nothing else, hence no code exactly when no
\* materialising move was recorded.
C24_EdgesConsumed ==
  /\ EmitMovesReturned => (NoEdgeLeft /\ ~scratch_has_cycle_start_)
  /\ (EmitMovesReturned /\ indegree_ok) =>
       /\ \A m \in MaterialisingMoves :
             IF IsAnyRegister(m.tgt)
             THEN materializing_register_moves_[m.tgt.i] = m.src
             ELSE \E j \in 1 .. Len(materializing_stack_slot_moves_) :
                     /\ materializing_stack_slot_moves_[j].slot = m.tgt.i
                     /\ materializing_stack_slot_moves_[j].node = m.src
       /\ NoMaterialisationLeft <=> MaterialisingMoves = {}
  /\ pmr_pc = "again" =>
       /\ \A j \in 1 .. Len(code) :
             IsMaterialisation(j) \/ IsMaterialisedStore(j)
       /\ Cardinality({j \in 1 .. Len(code) : IsMaterialisation(j)})
             = Cardinality({c \in RegCodes :
                              materializing_register_moves_[c] # Nil})
                 + Len(materializing_stack_slot_moves_)
       /\ (code = <<>>) <=> NoMaterialisationLeft

\* a second call after a first one that emitted moves between locations, a
\* materialisation into a register and one into a stack slot
C24_Witness ==
  /\ pmr_pc = "again"
  /\ LocationMoves # {}
  /\ \E m \in MaterialisingMoves : IsAnyRegister(m.tgt)
  /\ \E m \in MaterialisingMoves : IsAnyStackSlot(m.tgt)
  /\ Len(code) = 3

\* ------------------------------------ order of the parts of a trampoline
TrampolineEmitted == tr_pc \in {"emitted", "jumped"}

\* the positions of the code emitted by direct_moves.EmitMoves()
FirstDirect ==
  Len(EmitMaterialisationsAndPushResults(materialising_moves,
                                         save_accumulator)) + 1

LastDirect ==
  Len(code) - Len(EmitPopMaterialisedResults(materialising_moves,
                                             save_accumulator))

\* the materialising moves whose source is not a constant node, in order
ComputedMoves ==
  SelectSeq(materialising_moves, LAMBDA mv : ~IsConstantNode(mv.source))

MaterialisingTargets ==
  {materialising_moves[j].target : j \in 1 .. Len(materialising_moves)}

\* the positions at which a value is computed by NewHeapNumber
ComputedAt == {i \in 1 .. Len(code) : code[i].op = "materialise"}

\* every computed value is computed once, in the order of the moves, and
\* pushed by the next instruction, before the first direct move
ComputedAndPushedFirst ==
  /\ Cardinality(ComputedAt) = Len(ComputedMoves)
  /\ \A i \in ComputedAt :
        /\ i + 1 < FirstDirect
        /\ code[i + 1] = PushI(code[i].dst)
        /\ code[i].src
             = Materialised(
                 ComputedMoves[Cardinality({h \in ComputedAt : h <= i})].source)

\* C25 as stated: every computed value is computed and pushed before the
\* first direct move, and no instruction up to the last direct move writes
\* the final destination of a materialising move.
C25_MaterialiseBeforeDirectMoves ==
  TrampolineEmitted =>
     /\ ComputedAndPushedFirst
     /\ \A i \in 1 .. LastDirect : code[i].dst \notin MaterialisingTargets

\* C25 amended: every computed value is computed and pushed before the first
\* direct move, and up to the last direct move the only instruction that
\* writes the final destination of a materialising move is the computation
\* of a value in kReturnRegister0, when kReturnRegister0 is such a
\* destination; no pop, no constant load and no store reaches a final
\* destination of a materialising move before the direct moves are emitted.
C25_DeliveredAfterDirectMoves ==
  TrampolineEmitted =>
     /\ ComputedAndPushedFirst
     /\ \A i \in 1 .. LastDirect :
           code[i].dst \in MaterialisingTargets =>
              /\ code[i].op = "materialise"
              /\ code[i].dst = kReturnRegister0
              /\ i < FirstDirect
              /\ ~save_accumulator
     /\ \A mv \in MaterialisingTargets :
           \E i \in (LastDirect + 1) .. Len(code) : code[i].dst = mv

\* a trampoline with a computed value, a constant materialising move and a
\* direct move has been emitted
C25_Witness ==
  /\ TrampolineEmitted
  /\ Len(ComputedMoves) > 0
  /\ Len(ComputedMoves) < Len(materialising_moves)
  /\ FirstDirect <= LastDirect

\* ----------------------------------------- pushes of the scratch register
\* the instructions one call of StartEmitMoveChain appends
ChainCode(st, source) ==
  LET st1 == StartEmitMoveChain(st, source)
  IN SubSeq(st1.out, Len(st.out) + 1, Len(st1.out))

\* the resolver after the iteration of the first loop of EmitMoves for c
AfterRegister(st, mat_regs, c) ==
  LET st1 == StartEmitMoveChain(st, Reg(c))
  IN IF mat_regs[c] # Nil
     THEN Emit(st1, LoadToRegister(mat_regs[c], Reg(c)))
     ELSE st1

\* the code of each move chain of EmitMoves, in the order of emission
RECURSIVE RegisterChainCodes(_, _, _)
RegisterChainCodes(st, mat_regs, c) ==
  IF c >= NumRegs THEN <<>>
  ELSE <<ChainCode(st, Reg(c))>>
       \o RegisterChainCodes(AfterRegister(st, mat_regs, c), mat_regs, c + 1)

RECURSIVE SlotChainCodes(_, _, _)
SlotChainCodes(st, order, j) ==
  IF j > Len(order) THEN <<>>
  ELSE IF order[j] \in DOMAIN st.ms
       THEN <<ChainCode(st, StackSlot(order[j]))>>
            \o SlotChainCodes(StartEmitMoveChain(st, StackSlot(order[j])),
                              order, j + 1)
       ELSE SlotChainCodes(st, order, j + 1)

ChainCodes(order) ==
  LET st == ResolverState(moves_from_register_, moves_from_stack_slot_,
                          scratch_has_cycle_start_, <<>>, dcheck_ok)
  IN RegisterChainCodes(st, materializing_register_moves_, 0)
     \o SlotChainCodes(EmitRegisterChains(st, materializing_register_moves_, 0),
                       order, 1)

\* pushes not yet popped after the first k instructions of seq
PushDepth(seq, k) ==
  Cardinality({i \in 1 .. k : seq[i].op = "push"})
    - Cardinality({i \in 1 .. k : seq[i].op = "pop"})

\* every push and pop in seq is of the scratch register, at most one push is
\* outstanding at any point, no pop comes without a push, and none is
\* outstanding at the end
ScratchBalanced(seq) ==
  /\ \A i \in 1 .. Len(seq) :
        /\ seq[i].op = "push" => seq[i].src = kScratchRegT
        /\ seq[i].op = "pop" => seq[i].dst = kScratchRegT
  /\ \A k \in 0 .. Len(seq) : PushDepth(seq, k) \in {0, 1}
  /\ PushDepth(seq, Len(seq)) = 0

\* C26: in the code of every move chain EmitMoves emits, each push of the
\* scratch register is followed by exactly one pop of it within the chain and
\* at most one push is outstanding; the native stack is as deep after the
\* emitted code has run as before.
C26_ScratchPushPopPaired ==
  /\ [][(EmitMoves /\ indegree_ok) =>
          \A order \in Orderings(DOMAIN moves_from_stack_slot_) :
             LET chains == ChainCodes(order)
             IN \A j \in 1 .. Len(chains) : ScratchBalanced(chains[j])]_vars
  /\ []((pmr_pc = "exec" /\ indegree_ok) =>
          /\ ScratchBalanced(code)
          /\ EmitMovesDone => nstack = <<>>)

\* the code of a move set with a cycle has pushed and popped the scratch
\* register and has run
C26_Witness ==
  /\ EmitMovesDone /\ indegree_ok
  /\ \E i \in 1 .. Len(code) : code[i] = PushI(kScratchRegT)
  /\ \E i \in 1 .. Len(code) : code[i] = PopI(kScratchRegT)
  /\ nstack = <<>>

\* ------------------------------------- pushes and pops of a trampoline
\* pushes emitted by EmitMaterialisationsAndPushResults
PushedResults == {i \in 1 .. (FirstDirect - 1) : code[i].op = "push"}

\* pops emitted by EmitPopMaterialisedResults
PoppedResults == {i \in (LastDirect + 1) .. Len(code) : code[i].op = "pop"}

AccumulatorSaved == save_accumulator /\ materialising_moves # <<>>

\* C27: the first part of a trampoline pushes as many values as the last
\* part pops; after the trampoline has run every materialising move's target
\* holds the value computed for that move and the native stack is as before;
\* the accumulator, when saved, is pushed by the first instruction and
\* popped by the last.
C27_PushesMatchPops ==
  /\ TrampolineEmitted =>
       /\ Cardinality(PushedResults) = Cardinality(PoppedResults)
       /\ Cardinality(PushedResults)
            = Len(ComputedMoves) + (IF AccumulatorSaved THEN 1 ELSE 0)
       /\ AccumulatorSaved =>
             /\ code[1] = PushI(kReturnRegister0)
             /\ code[Len(code)] = PopI(kReturnRegister0)
             /\ \A i \in PoppedResults :
                   code[i].dst = kReturnRegister0 => i = Len(code)
  /\ tr_pc = "jumped" =>
       /\ \A j \in 1 .. Len(materialising_moves) :
             val[materialising_moves[j].target]
               = IF IsConstantNode(materialising_moves[j].source)
                 THEN materialising_moves[j].source
                 ELSE Materialised(materialising_moves[j].source)
       /\ nstack = <<>>

\* a trampoline that saved the accumulator and computed two different values
\* has run
C27_Witness ==
  /\ tr_pc = "jumped"
  /\ AccumulatorSaved
  /\ Len(ComputedMoves) = 2
  /\ ComputedMoves[1].source # ComputedMoves[2].source

\* -------------------------------------------- size of an interpreted frame
\* closure, parameters, context, locals, accumulator
FrameValueCount(deopt_frame) ==
  1 + deopt_frame.parameter_count + 1 + deopt_frame.register_count + 1

\* the positions of the entries BuildDeoptFrameValues wrote for frame j
ValuesOfFrame(j) ==
  (BeginOfFrame(j) + 1) .. (BeginOfFrame(j) + FrameValueCount(DeoptFrames[j]))

\* C28: for every interpreted frame BuildDeoptFrameValues writes
\* 1 + parameter_count + 1 + register_count + 1 entries after the entry that
\* begins the frame, whatever is live and wherever the result goes; the
\* closure and the optimized-out entries take no input location, every other
\* entry takes the one under the cursor, and the cursor moves by one for
\* each of these.
C28_FrameValueCount ==
  DeoptBuilt =>
     /\ \A j \in InterpretedFrames :
          /\ EntriesOfFrame(j) = {BeginOfFrame(j)} \cup ValuesOfFrame(j)
          /\ translation_array[BeginOfFrame(j) + 1].input = 0
          /\ translation_array[BeginOfFrame(j) + 1].op # "OPTIMIZED_OUT"
          /\ translation_array[BeginOfFrame(j) + 1
                                + DeoptFrames[j].parameter_count + 1].input > 0
          /\ \A p \in ValuesOfFrame(j) \ {BeginOfFrame(j) + 1} :
                (translation_array[p].op = "OPTIMIZED_OUT")
                   <=> (translation_array[p].input = 0)
     /\ \A p \in ValuePositions :
          translation_array[p].input
            = Cardinality({q \in ValuePositions : q <= p})
     /\ current_input_location = 1 + Cardinality(ValuePositions)

\* a lazy deopt of an inlined function whose result goes to a local: the top
\* frame has a dead local, a live local and a dead accumulator, and its
\* parent frame is interpreted too
C28_Witness ==
  /\ DeoptBuilt
  /\ TopIsInterpreted
  /\ Len(DeoptFrames) = 2
  /\ DeoptFrames[2].type = "interpreted"
  /\ deopt_info.result_size > 0 /\ deopt_info.result_location >= 0
  /\ DeoptFrames[1].register_count = 2
  /\ Cardinality(DeoptFrames[1].live) = 1
  /\ ~DeoptFrames[1].accumulator_is_live
  /\ DeoptFrames[1].parameter_count > 0

\* ------------------------------ saving caller registers around a C call
\* The two instructions with their DCHECKs: the assignments are made
\* whatever the DCHECKs find, and cg_result records whether all of them
\* held. A failed DCHECK ends the compilation.
NoFailedDcheck ==
  cg_result.op \in {"save", "restore"} => cg_result.dcheck_ok

CallerSavedSlots(fp_mode) ==
  RequiredStackSizeForCallerSaved(fp_mode) \div kSystemPointerSize

\* kArchSaveCallerRegisters
AssembleSaveCallerRegisters ==
  /\ InBlock
  /\ NoFailedDcheck
  /\ \E mode \in {"kIgnore", "kSave"} :
       /\ fp_mode_' = mode
       /\ SetMachine(PushWords(CurrentMachine, CallerSavedSlots(mode)))
       /\ sp_delta' = sp_delta + CallerSavedSlots(mode)
  /\ caller_registers_saved_' = TRUE
  /\ cg_result' = [op |-> "save",
                   dcheck_ok |-> sp_delta = 0 /\ ~caller_registers_saved_,
                   after_call |-> FALSE]
  /\ UNCHANGED <<frame, frame_pc>>
  /\ UNCHANGED <<frame_access, temp_slots_, move_cycle_, scratch_regs,
                 stack_slot_delta, cg_instr, cg_pc>>
  /\ UNCHANGED other_than_cg

\* kArchRestoreCallerRegisters
AssembleRestoreCallerRegisters ==
  /\ InBlock
  /\ NoFailedDcheck
  /\ \E mode \in {"kIgnore", "kSave"} :
       cg_result' = [op |-> "restore",
                     dcheck_ok |-> /\ fp_mode_ = mode
                                   /\ sp_delta - CallerSavedSlots(fp_mode_) = 0
                                   /\ caller_registers_saved_,
                     after_call |-> cg_result.op = "call_c"]
  /\ rsp' = rsp + CallerSavedSlots(fp_mode_)
  /\ sp_delta' = sp_delta - CallerSavedSlots(fp_mode_)
  /\ caller_registers_saved_' = FALSE
  /\ UNCHANGED <<frame, frame_pc, rbp, gp_regs, xmm_regs, stack_mem>>
  /\ UNCHANGED <<frame_access, fp_mode_, temp_slots_, move_cycle_,
                 scratch_regs, stack_slot_delta, cg_instr, cg_pc>>
  /\ UNCHANGED other_than_cg

CallerSavedPrepareCallCFunction == NoFailedDcheck /\ ArchPrepareCallCFunction

CallerSavedCallCFunction == NoFailedDcheck /\ ArchCallCFunction

CallerSavedNext ==
  \/ AssembleConstructFrame
  \/ AssembleSaveCallerRegisters
  \/ CallerSavedPrepareCallCFunction
  \/ CallerSavedCallCFunction
  \/ AssembleRestoreCallerRegisters

SpecCallerSaved == CallsInit /\ [][CallerSavedNext]_vars

\* C29: while no assertion has failed the tracked SP delta is the slot count
\* of the saved caller registers when they are saved, after the save and
\* after the C call alike, and 0 when they are not, after the restore; a
\* save or a restore passes its assertions exactly in this sequence: a save
\* while registers are saved and a restore while none are saved fail one.
C29_SaveCallRestore ==
  /\ [](NoFailedDcheck =>
          sp_delta = IF caller_registers_saved_
                     THEN CallerSavedSlots(fp_mode_) ELSE 0)
  /\ [][AssembleSaveCallerRegisters =>
          /\ cg_result'.dcheck_ok <=> ~caller_registers_saved_
          /\ cg_result'.dcheck_ok =>
                (caller_registers_saved_' /\ sp_delta' = CallerSavedSlots(fp_mode_'))]_vars
  /\ [][CallerSavedCallCFunction =>
          (caller_registers_saved_ =>
             (caller_registers_saved_' /\ sp_delta' = CallerSavedSlots(fp_mode_)))]_vars
  /\ [][AssembleRestoreCallerRegisters =>
          /\ ~caller_registers_saved_ => ~cg_result'.dcheck_ok
          /\ cg_result'.dcheck_ok =>
                (sp_delta' = 0 /\ ~caller_registers_saved_')
          /\ ~caller_registers_saved_']_vars

\* the three instructions have run in sequence, with the XMM registers
\* saved, and every assertion held
C29_Witness ==
  /\ cg_result.op = "restore"
  /\ cg_result.dcheck_ok
  /\ cg_result.after_call
  /\ fp_mode_ = "kSave"
  /\ sp_delta = 0 /\ ~caller_registers_saved_

\* --------------------------------- scratch registers of a single gap move
\* the constants of a gap move: a wasm reference is an int32 or int64
MoveConstants ==
  {RelocatedConstant(type, "NO_INFO") :
     type \in {"kInt32", "kInt64", "kFloat32", "kFloat64",
               "kExternalReference", "kHeapObject", "kCompressedHeapObject"}}
    \cup {RelocatedConstant(type, "WASM_CALL") : type \in {"kInt32", "kInt64"}}

\* the moves the register allocator can ask for: locations of one
\* representation, or a constant into a location that can hold it
GapMoves(f) ==
  {mv \in [source : GapOperands(f) \cup MoveConstants,
           destination : GapOperands(f)] :
     /\ mv.source # mv.destination
     /\ mv.source.kind # "CONSTANT" => mv.source.rep = mv.destination.rep
     /\ (mv.source.kind = "CONSTANT" /\ IsFloatingPoint(mv.destination.rep))
          => (mv.source.type \in {"kFloat32", "kFloat64"}
                /\ mv.destination.rep = "kFloat64")}

\* SetPendingMove(move)
MoveSetPendingMove ==
  /\ frame_pc = "constructed"
  /\ cg_pc = "block"
  /\ move_cycle_' = SetPendingMove(move_cycle_, cg_instr.source,
                                   cg_instr.destination)
  /\ cg_pc' = "pending"
  /\ UNCHANGED frame_vars
  /\ UNCHANGED <<sp_delta, frame_access, caller_registers_saved_, fp_mode_,
                 temp_slots_, scratch_regs, stack_slot_delta, cg_instr,
                 cg_result>>
  /\ UNCHANGED other_than_cg

\* AssembleMove(&move->source(), &move->destination()); the code runs
MoveAssembleMove ==
  /\ frame_pc = "constructed"
  /\ cg_pc = "pending"
  /\ LET st == AssembleMove(
                 [CurrentGapState EXCEPT !.move_cycle_ = MoveCycleState],
                 frame, cg_instr.source, cg_instr.destination)
     IN /\ SetMachine(st.m)
        /\ scratch_regs' = st.scratch
        /\ sp_delta' = st.sp_delta
        /\ temp_slots_' = st.temp_slots_
  /\ cg_result' = [op |-> "moved", scratch_before |-> scratch_regs]
  /\ cg_pc' = "moved"
  /\ UNCHANGED <<frame, frame_pc>>
  /\ UNCHANGED <<frame_access, caller_registers_saved_, fp_mode_, move_cycle_,
                 stack_slot_delta, cg_instr>>
  /\ UNCHANGED other_than_cg

MoveInit ==
  /\ \E f \in GapFrames :
       /\ FrameStart(f)
       /\ \E mv \in GapMoves(f) :
            cg_instr = [op |-> "move", source |-> mv.source,
                        destination |-> mv.destination]
  /\ sp_delta = 0
  /\ frame_access = "fp"
  /\ caller_registers_saved_ = FALSE
  /\ fp_mode_ = "kIgnore"
  /\ temp_slots_ = 0
  /\ move_cycle_ = MoveCycleState
  /\ scratch_regs = [gp |-> 90, fp |-> <<91, 92>>]
  /\ stack_slot_delta = 0
  /\ cg_result = [op |-> "none"]
  /\ cg_pc = "block"
  /\ PmrIdle
  /\ DcIdle
  /\ TrampIdle
  /\ DeoptIdle

MoveNext == AssembleConstructFrame \/ MoveSetPendingMove \/ MoveAssembleMove

SpecMove == MoveInit /\ [][MoveNext]_vars

\* the code of the move has written the scratch register: no word the code
\* moves is the one the scratch registers start with
WroteScratchRegister == scratch_regs.gp # cg_result.scratch_before.gp

WroteScratchDoubleReg == scratch_regs.fp # cg_result.scratch_before.fp

\* C30: the code AssembleMove emits for a move writes kScratchRegister exactly
\* when SetPendingMove on the move sets pending_scratch_register_use, which
\* is for a move between integer stack slots and for a constant that is a
\* wasm reference or no int32 or int64 stored to an integer stack slot; it
\* writes kScratchDoubleReg exactly when SetPendingMove sets
\* pending_double_scratch_register_use, which is for a move between
\* floating-point stack slots.
C30_ScratchIffPending ==
  cg_pc = "moved" =>
     LET source == cg_instr.source
         destination == cg_instr.destination
     IN /\ WroteScratchRegister <=> move_cycle_.pending_scratch_register_use
        /\ WroteScratchDoubleReg
             <=> move_cycle_.pending_double_scratch_register_use
        /\ WroteScratchRegister <=>
             \/ IsStackSlot(source) /\ IsStackSlot(destination)
             \/ /\ source.kind = "CONSTANT" /\ IsStackSlot(destination)
                /\ \/ IsWasmReference(source.rmode)
                   \/ source.type \notin {"kInt32", "kInt64"}
        /\ WroteScratchDoubleReg <=>
             (IsFPStackSlot(source) /\ IsFPStackSlot(destination))

\* a wasm reference of type int64 has been stored to an integer stack slot
\* through kScratchRegister
C30_Witness ==
  /\ cg_pc = "moved"
  /\ cg_instr.source.kind = "CONSTANT"
  /\ cg_instr.source.type = "kInt64"
  /\ IsWasmReference(cg_instr.source.rmode)
  /\ IsStackSlot(cg_instr.destination)
  /\ WroteScratchRegister
  /\ move_cycle_.pending_scratch_register_use

====
